---- MODULE Spec2Model ----
(***************************************************************************)
(* Texas Hold'em table of poker_server.py: PokerGame (table state, betting *)
(* round engine, hand evaluator, pot allocator) and PokerServer (message   *)
(* handling, round completion, turn advance, game_loop tick).              *)
(*                                                                         *)
(* The PokerGame object is one record, game, with the fields of the class. *)
(* Seats are the entries of game.players in insertion order (the order of  *)
(* the Python dict); dealer_position and current_player_index keep the     *)
(* 0-based values of the code, -1 meaning "none".                          *)
(* A card is a number 0..51: create_deck's position suit * 13 + rank.      *)
(***************************************************************************)
EXTENDS Integers, Sequences, FiniteSets, TLC

VARIABLES
    game,            \* PokerServer.game, the PokerGame object
    last,            \* what the last step did: operation, reply sent, awards made
    nAccepted,       \* action messages accepted so far
    handStartChips,  \* sum of all chips when the current hand's start_new_hand began
    distributions,   \* pot distributions made since the current hand started
    pc               \* position of the client-handler thread and of the game_loop thread

vars == <<game, last, nAccepted, handStartChips, distributions, pc>>

(***************************************************************************)
(* Program constants.                                                      *)
(***************************************************************************)
StartingChips == 1000
SmallBlind == 10
BigBlind == 20
MaxSeats == 6
DeckSize == 52

(***************************************************************************)
(* Bounds of the model.                                                    *)
(***************************************************************************)
\* accepted action messages after which the clients submit no more
MaxActions == 3

\* the clients, in the order in which they join
PlayerIds == <<"p1", "p2", "p3">>
RaiseTargets == {40, 300}
ActionNames == {"fold", "check", "call", "raise", "all_in", "bet"}

None == "none"
BettingStreets == {"pre_flop", "flop", "turn", "river"}

(***************************************************************************)
(* Generic helpers.                                                        *)
(***************************************************************************)
Min(a, b) == IF a < b THEN a ELSE b

MinOf(S) == CHOOSE x \in S : \A y \in S : x <= y

MaxOf(S) == CHOOSE x \in S : \A y \in S : y <= x

Range(s) == {s[i] : i \in 1..Len(s)}

RECURSIVE SumSeq(_)
SumSeq(s) == IF s = <<>> THEN 0 ELSE Head(s) + SumSeq(Tail(s))

\* 0-based index of a player id in the dict order, -1 when absent
IndexOf(ps, id) ==
    IF \E i \in 1..Len(ps) : ps[i].id = id
    THEN (CHOOSE i \in 1..Len(ps) : ps[i].id = id) - 1
    ELSE -1

\* players[players_list[idx]] for a 0-based idx
At(ps, idx) == ps[idx + 1]

(***************************************************************************)
(* Card                                                                    *)
(***************************************************************************)
Card(suit, value) == suit * 13 + (value - 2)
suit_of(c) == c \div 13
get_value(c) == (c % 13) + 2

(***************************************************************************)
(* Player                                                                  *)
(***************************************************************************)
NewPlayer(id) ==
    [id |-> id, chips |-> StartingChips, cards |-> <<>>,
     current_bet |-> 0, total_bet |-> 0,
     is_folded |-> FALSE, is_all_in |-> FALSE,
     has_acted_this_round |-> FALSE]

can_act(p) == ~p.is_folded /\ ~p.is_all_in /\ p.chips > 0

(***************************************************************************)
(* PokerGame.__init__                                                      *)
(***************************************************************************)
NewGame ==
    [players |-> <<>>, community_cards |-> <<>>, deck |-> <<>>,
     pot |-> 0, current_bet |-> 0,
     dealer_position |-> -1, current_player_index |-> -1,
     game_state |-> "waiting", action_history |-> 0,
     last_raiser |-> None]

\* create_deck before the shuffle: suits outer, ranks inner
CanonicalDeck == [i \in 1..DeckSize |-> i - 1]

\* add_player: a new dict entry goes last, an existing key is overwritten
\* in place; refused when 6 players are seated
add_player(g, id) ==
    IF Len(g.players) < MaxSeats
    THEN [ok |-> TRUE,
          game |-> [g EXCEPT !.players =
                      IF IndexOf(g.players, id) = -1
                      THEN Append(g.players, NewPlayer(id))
                      ELSE [g.players EXCEPT
                              ![IndexOf(g.players, id) + 1] = NewPlayer(id)]]]
    ELSE [ok |-> FALSE, game |-> g]

\* lines 240-245: the steps from initial_index, in ring order, to the seats
\* that can act
StepsToAble(ps, initial_index) ==
    {i \in 0..(Len(ps) - 1) : can_act(At(ps, (initial_index + i) % Len(ps)))}

\* lines 240-245: the first seat from initial_index on that can act
ScanFrom(ps, initial_index) ==
    IF StepsToAble(ps, initial_index) = {} THEN -1
    ELSE (initial_index + MinOf(StepsToAble(ps, initial_index))) % Len(ps)

\* _get_player_index_after_dealer
get_player_index_after_dealer(g, start_pos, offset) ==
    IF Len(g.players) = 0 THEN -1
    ELSE ScanFrom(g.players, (start_pos + offset) % Len(g.players))

\* lines 207-212 and 216-221: amt chips of seat idx (0-based) go in as a blind
PayBlind(g, idx, amt) ==
    [g EXCEPT !.players[idx + 1].chips = @ - amt,
              !.players[idx + 1].current_bet = @ + amt,
              !.players[idx + 1].total_bet = @ + amt,
              !.players[idx + 1].has_acted_this_round = TRUE,
              !.pot = @ + amt]

\* one blind of post_blinds: the poster pays min(blind, chips)
PostBlind(g, idx, blind) ==
    PayBlind(g, idx, Min(blind, At(g.players, idx).chips))

\* the seat after the dealer, whatever the number of players
sb_pos_ring(g) == (g.dealer_position + 1) % Len(g.players)

\* lines 193-204: heads-up the dealer posts the small blind
sb_pos_index(g) ==
    IF Len(g.players) = 2 THEN g.dealer_position
    ELSE (g.dealer_position + 1) % Len(g.players)

bb_pos_index(g) ==
    IF Len(g.players) = 2 THEN (g.dealer_position + 1) % Len(g.players)
    ELSE (g.dealer_position + 2) % Len(g.players)

\* lines 224-225: the big blind is the bet to match
OpenBetting(g, bb) ==
    [g EXCEPT !.current_bet = At(g.players, bb).current_bet,
              !.last_raiser = At(g.players, bb).id]

post_blinds(g) ==
    OpenBetting(PostBlind(PostBlind(g, sb_pos_index(g), SmallBlind),
                          bb_pos_index(g), BigBlind),
                bb_pos_index(g))

\* the hole cards of seat i (0-based) after the two dealing rounds: each
\* pop takes the last card of the deck
HoleCards(deck, n, i) ==
    <<deck[Len(deck) - i], deck[Len(deck) - n - i]>>

\* the seat after the dealer, with chips or without
NextSeatDealer(g) == (g.dealer_position + 1) % Len(g.players)

\* lines 146-153: the next seat after the dealer that has chips
NextDealer(g) ==
    (g.dealer_position + 1
       + MinOf({i \in 0..(Len(g.players) - 1) :
                  At(g.players,
                     (g.dealer_position + 1 + i) % Len(g.players)).chips > 0}))
    % Len(g.players)

\* lines 136-173: new deck, button moved, players reset, hole cards dealt
ResetAndDeal(g, shuffled) ==
    [g EXCEPT !.deck = SubSeq(shuffled, 1,
                              Len(shuffled) - 2 * Len(g.players)),
              !.community_cards = <<>>,
              !.pot = 0, !.current_bet = 0,
              !.action_history = 0, !.last_raiser = None,
              !.dealer_position = NextDealer(g),
              !.players =
                 [i \in 1..Len(g.players) |->
                    [g.players[i] EXCEPT
                        !.cards = HoleCards(shuffled, Len(g.players), i - 1),
                        !.current_bet = 0, !.total_bet = 0,
                        !.is_folded = FALSE, !.is_all_in = FALSE,
                        !.has_acted_this_round = FALSE]] \o <<>>]

\* lines 180-182: the seat after the big blind acts first, with a fallback
FirstToAct(g, utg) ==
    [g EXCEPT !.current_player_index =
        IF utg = -1
        THEN get_player_index_after_dealer(g, g.dealer_position, 0)
        ELSE utg]

\* lines 176-182
OpenPreFlop(g) ==
    FirstToAct([g EXCEPT !.game_state = "pre_flop"],
               get_player_index_after_dealer(g, g.dealer_position, 3))

start_new_hand(g, shuffled) ==
    IF Cardinality({i \in 1..Len(g.players) : g.players[i].chips > 0}) < 2
    THEN [ok |-> FALSE, game |-> [g EXCEPT !.game_state = "waiting"]]
    ELSE [ok |-> TRUE,
          game |-> OpenPreFlop(post_blinds(ResetAndDeal(g, shuffled)))]

\* the expression with the index off by one: the seat after the actor
current_player_id_next(g) ==
    IF g.current_player_index # -1
    THEN At(g.players, (g.current_player_index + 1) % Len(g.players)).id
    ELSE None

\* players_list[self.current_player_index] if the index is not -1, else
\* None (lines 260-261, 728 and 613)
current_player_id(g) ==
    IF g.current_player_index # -1
    THEN At(g.players, g.current_player_index).id
    ELSE None

\* lines 258-262: it has to be the submitter's turn
TurnOk(g, player_id) ==
    g.current_player_index # -1 /\ current_player_id(g) = player_id

\* lines 326-328 and 343-345: players who have to answer the new bet
ReopenAction(ps, raiser_id, bet) ==
    [i \in 1..Len(ps) |->
        IF can_act(ps[i]) /\ ps[i].id # raiser_id /\ ps[i].current_bet < bet
        THEN [ps[i] EXCEPT !.has_acted_this_round = FALSE]
        ELSE ps[i]] \o <<>>

\* line 264, executed before the action is validated
MarkActed(g, k) == [g EXCEPT !.players[k].has_acted_this_round = TRUE]

\* the chips go into the bet and the pot, total_bet keeps no count of them
CommitUncounted(g, k, amt) ==
    [g EXCEPT !.players[k].chips = @ - amt,
              !.players[k].current_bet = @ + amt,
              !.pot = @ + amt]

\* the chips of seat k (1-based) that go into the bet
Commit(g, k, amt) ==
    [g EXCEPT !.players[k].chips = @ - amt,
              !.players[k].current_bet = @ + amt,
              !.players[k].total_bet = @ + amt,
              !.pot = @ + amt]

\* lines 293-294 and 318-319: out of chips means all-in
AllInIfBroke(g, k) ==
    IF g.players[k].chips = 0
    THEN [g EXCEPT !.players[k].is_all_in = TRUE]
    ELSE g

\* lines 315-316 and 340-341: seat k's bet is the bet to match
SetBet(g, k) ==
    [g EXCEPT !.current_bet = g.players[k].current_bet,
              !.last_raiser = g.players[k].id]

\* lines 326-328 and 343-345 on the table
Reopen(g, k) ==
    [g EXCEPT !.players =
        ReopenAction(g.players, g.players[k].id, g.current_bet)]

Fold(g, k) == [ok |-> TRUE, game |-> [g EXCEPT !.players[k].is_folded = TRUE]]

Check(g, k) ==
    IF g.current_bet > g.players[k].current_bet
    THEN [ok |-> FALSE, game |-> g]
    ELSE [ok |-> TRUE, game |-> g]

\* the call that takes the whole amount owed, whatever the stack holds
CallUnclamped(g, k) ==
    IF g.current_bet - g.players[k].current_bet <= 0
    THEN [ok |-> FALSE, game |-> g]
    ELSE [ok |-> TRUE,
          game |-> AllInIfBroke(
                      Commit(g, k, g.current_bet - g.players[k].current_bet),
                      k)]

Call(g, k) ==
    IF g.current_bet - g.players[k].current_bet <= 0
    THEN [ok |-> FALSE, game |-> g]
    ELSE [ok |-> TRUE,
          game |-> AllInIfBroke(
                      Commit(g, k, Min(g.current_bet - g.players[k].current_bet,
                                       g.players[k].chips)), k)]

\* lines 304-314: a raise the player cannot afford puts in all the chips
RaiseCommit(g, k, amount) ==
    IF amount - g.players[k].current_bet > g.players[k].chips
    THEN [Commit(g, k, g.players[k].chips) EXCEPT !.players[k].is_all_in = TRUE]
    ELSE Commit(g, k, amount - g.players[k].current_bet)

Raise(g, k, amount) ==
    IF amount <= g.current_bet
    THEN [ok |-> FALSE, game |-> g]
    ELSE [ok |-> TRUE,
          game |-> Reopen(SetBet(AllInIfBroke(RaiseCommit(g, k, amount), k),
                                 k), k)]

\* the all-in sets the bet to match, higher or not
RaiseAlways(g, k) == Reopen(SetBet(g, k), k)

\* lines 339-345: an all-in above the bet to match counts as a raise
RaiseIfHigher(g, k) ==
    IF g.players[k].current_bet > g.current_bet
    THEN Reopen(SetBet(g, k), k)
    ELSE g

AllIn(g, k) ==
    [ok |-> TRUE,
     game |-> RaiseIfHigher(
                 [Commit(g, k, g.players[k].chips)
                     EXCEPT !.players[k].is_all_in = TRUE], k)]

\* lines 266-348: the branch on the action name
Dispatch(g, k, action, amount) ==
    CASE action = "fold" -> Fold(g, k)
      [] action = "check" -> Check(g, k)
      [] action = "call" -> Call(g, k)
      [] action = "raise" -> Raise(g, k, amount)
      [] action = "all_in" -> AllIn(g, k)
      [] OTHER -> [ok |-> FALSE, game |-> g]

\* lines 350-352
Logged(r) ==
    IF r.ok
    THEN [ok |-> TRUE, game |-> [r.game EXCEPT !.action_history = @ + 1]]
    ELSE r

\* process_action for the player at seat k (1-based; 0: no such player)
ProcessAt(g, k, player_id, action, amount) ==
    IF k = 0 THEN [ok |-> FALSE, game |-> g]
    ELSE IF ~can_act(g.players[k]) THEN [ok |-> FALSE, game |-> g]
    ELSE IF ~TurnOk(g, player_id) THEN [ok |-> FALSE, game |-> g]
    ELSE Logged(Dispatch(MarkActed(g, k), k, action, amount))

process_action(g, player_id, action, amount) ==
    ProcessAt(g, IndexOf(g.players, player_id) + 1, player_id, action, amount)

\* the street dealt off the top of the deck, no card burned
DealWithoutBurn(g, ncards) ==
    [g EXCEPT !.community_cards =
                 @ \o [j \in 1..Min(ncards, Len(g.deck)) |->
                          g.deck[Len(g.deck) + 1 - j]],
              !.deck = SubSeq(g.deck, 1,
                              Len(g.deck) - Min(ncards, Len(g.deck)))]

\* the cards advance_to_next_street deals when leaving a street: one burn
\* card, then the community cards, each the last card of the deck
DealStreet(g, ncards) ==
    [g EXCEPT !.community_cards =
                 @ \o [j \in 1..Min(ncards, Len(g.deck) - 1) |->
                          g.deck[Len(g.deck) - j]],
              !.deck = SubSeq(g.deck, 1,
                              Len(g.deck) - 1 - Min(ncards, Len(g.deck) - 1))]

\* the bets go to the pot and the acted flags stay as they are
SweepBetsOnly(g) ==
    [g EXCEPT
        !.pot = @ + SumSeq([i \in 1..Len(g.players) |->
                              g.players[i].current_bet]),
        !.players = [i \in 1..Len(g.players) |->
                       [g.players[i] EXCEPT !.current_bet = 0]] \o <<>>,
        !.current_bet = 0,
        !.last_raiser = None]

\* lines 356-362: the bets go to the pot, the street starts afresh
Sweep(g) ==
    [g EXCEPT
        !.pot = @ + SumSeq([i \in 1..Len(g.players) |->
                              g.players[i].current_bet]),
        !.players = [i \in 1..Len(g.players) |->
                       [g.players[i] EXCEPT !.current_bet = 0,
                                            !.has_acted_this_round = FALSE]]
                    \o <<>>,
        !.current_bet = 0,
        !.last_raiser = None]

\* lines 370-375: the first seat in dict order that can act, -1 if none
FirstAble(ps) ==
    IF \A i \in 1..Len(ps) : ~can_act(ps[i]) THEN -1
    ELSE MinOf({i \in 0..(Len(ps) - 1) : can_act(At(ps, i))})

\* lines 366-375: who opens the street
OpenStreet(g, after) ==
    [g EXCEPT !.current_player_index =
        IF after # -1 THEN after ELSE FirstAble(g.players)]

\* lines 384-407: the cards and the name of the next street
NextStreet(g) ==
    CASE g.game_state = "pre_flop" ->
            [DealStreet(g, 3) EXCEPT !.game_state = "flop"]
      [] g.game_state = "flop" ->
            [DealStreet(g, 1) EXCEPT !.game_state = "turn"]
      [] g.game_state = "turn" ->
            [DealStreet(g, 1) EXCEPT !.game_state = "river"]
      [] g.game_state = "river" ->
            [g EXCEPT !.game_state = "showdown"]
      [] OTHER -> g

\* lines 356-375
SweepAndOpen(g) ==
    OpenStreet(g, get_player_index_after_dealer(g, g.dealer_position, 1))

advance_to_next_street(g) == NextStreet(SweepAndOpen(Sweep(g)))

(***************************************************************************)

(* Hand evaluator                                                          *)
(***************************************************************************)
\* sorted(set, reverse=True)
RECURSIVE SortDesc(_)
SortDesc(S) == IF S = {} THEN <<>> ELSE <<MaxOf(S)>> \o SortDesc(S \ {MaxOf(S)})

\* the list without its entry i
Without(s, i) == SubSeq(s, 1, i - 1) \o SubSeq(s, i + 1, Len(s))

\* sorted(list, reverse=True) of a list of numbers that may repeat
RECURSIVE SortSeqDesc(_)
SortSeqDesc(s) ==
    IF s = <<>> THEN <<>>
    ELSE <<MaxOf(Range(s))>>
            \o SortSeqDesc(Without(s, CHOOSE j \in 1..Len(s) :
                                         s[j] = MaxOf(Range(s))))

\* seq[:k]
Take(s, k) == SubSeq(s, 1, Min(k, Len(s)))

\* lines 416-420: ranks[r], the number of cards of rank r
RankCount(values, r) == Cardinality({i \in 1..Len(values) : values[i] = r})

\* the highest rank, whatever the counts
TopRankByRank(R, values) == MaxOf(R)

\* the entry of ranks.items() that sorts first by (count, rank), descending
TopRank(R, values) ==
    CHOOSE r \in R : \A q \in R :
        \/ RankCount(values, q) < RankCount(values, r)
        \/ (RankCount(values, q) = RankCount(values, r) /\ q <= r)

\* ranks.items() sorted by (count, rank), highest first, as <<rank, count>>
RECURSIVE SortRankCounts(_, _)
SortRankCounts(R, values) ==
    IF R = {} THEN <<>>
    ELSE <<<<TopRank(R, values), RankCount(values, TopRank(R, values))>>>>
            \o SortRankCounts(R \ {TopRank(R, values)}, values)

\* the windows of five ranks, ur[i] - ur[i+4] = 4, in a descending list
Windows(ur) == {i \in 1..(Len(ur) - 4) : ur[i] - ur[i + 4] = 4}

\* 0 when there is no window, else the first (highest) window's top
StraightHigh(ur) ==
    IF Windows(ur) = {} THEN 0 ELSE ur[MinOf(Windows(ur))]

IsWheel(R) == {14, 2, 3, 4, 5} \subseteq R

\* lines 412-420: the card values, in the order of the list
CardValues(all_cards) ==
    [i \in 1..Len(all_cards) |-> get_value(all_cards[i])] \o <<>>

\* lines 423 and 453-457: the suits (0..3) held five times or more
FlushSuits(all_cards) ==
    {s \in 0..3 :
        Cardinality({i \in 1..Len(all_cards) : suit_of(all_cards[i]) = s}) >= 5}

\* lines 459 and 484: the values of the flush suit, highest first
FlushValues(all_cards, flush_suits) ==
    IF flush_suits = {} THEN <<>>
    ELSE SortDesc({get_value(all_cards[i]) :
                     i \in {j \in 1..Len(all_cards) :
                              suit_of(all_cards[j]) =
                                 CHOOSE s \in flush_suits : TRUE}})

\* lines 472-476: the rank of the first later entry that counts two or more
RECURSIVE SecondPair(_, _)
SecondPair(rank_counts, i) ==
    IF i > Len(rank_counts) THEN 0
    ELSE IF rank_counts[i][2] >= 2 THEN rank_counts[i][1]
    ELSE SecondPair(rank_counts, i + 1)

\* the regular straights only, the ace never counted low
StraightTopRegular(regular, R) == regular

\* lines 438-440 after 431-435
StraightTop(regular, R) ==
    IF regular # 0 THEN regular ELSE IF IsWheel(R) THEN 5 ELSE 0

\* lines 447-500: the ladder of hand ranks
Classify(values, R, is_flush, straight_high, rank_counts, flush_values, singles) ==
    IF straight_high # 0 /\ is_flush
    THEN IF {10, 11, 12, 13, 14} \subseteq R /\ straight_high = 14
         THEN <<9, <<14>>>>
         ELSE IF StraightHigh(flush_values) # 0
         THEN <<8, <<StraightHigh(flush_values)>>>>
         ELSE IF IsWheel(Range(flush_values)) THEN <<8, <<5>>>>
         ELSE <<0, <<0>>>>
    ELSE IF rank_counts[1][2] = 4
    THEN <<7, <<rank_counts[1][1], rank_counts[2][1]>>>>
    ELSE IF rank_counts[1][2] = 3 /\ rank_counts[2][2] >= 2
    THEN <<6, <<rank_counts[1][1], SecondPair(rank_counts, 2)>>>>
    ELSE IF is_flush
    THEN <<5, Take(flush_values, 5)>>
    ELSE IF straight_high # 0
    THEN <<4, <<straight_high>>>>
    ELSE IF rank_counts[1][2] = 3
    THEN <<3, <<rank_counts[1][1]>> \o Take(singles, 2)>>
    ELSE IF rank_counts[1][2] = 2 /\ rank_counts[2][2] = 2
    THEN <<2, SortDesc({rank_counts[1][1], rank_counts[2][1]})
                \o Take(singles, 1)>>
    ELSE IF rank_counts[1][2] = 2
    THEN <<1, <<rank_counts[1][1]>> \o Take(singles, 3)>>
    ELSE <<0, Take(SortSeqDesc(values), 5)>>

\* lines 416-444: what the ladder looks at
Survey(all_cards, values, R) ==
    Classify(values, R, FlushSuits(all_cards) # {},
             StraightTop(StraightHigh(SortDesc(R)), R),
             SortRankCounts(R, values),
             FlushValues(all_cards, FlushSuits(all_cards)),
             SortDesc({r \in R : RankCount(values, r) = 1}))

EvaluateCards(all_cards, values) == Survey(all_cards, values, Range(values))

evaluate_hand(player_cards, community_cards) ==
    EvaluateCards(player_cards \o community_cards,
                  CardValues(player_cards \o community_cards))

\* Python's order on lists of numbers: the first difference decides, and a
\* proper prefix is smaller
RECURSIVE ListLess(_, _)
ListLess(a, b) ==
    IF a = <<>> THEN b # <<>>
    ELSE IF b = <<>> THEN FALSE
    ELSE IF Head(a) # Head(b) THEN Head(a) < Head(b)
    ELSE ListLess(Tail(a), Tail(b))

\* Python's order on the (hand_rank, tiebreakers) tuples
StrengthLess(a, b) == a[1] < b[1] \/ (a[1] = b[1] /\ ListLess(a[2], b[2]))

(***************************************************************************)
(* Pot allocator                                                           *)
(***************************************************************************)
RECURSIVE SumSet(_, _)
SumSet(S, f) ==
    IF S = {} THEN 0
    ELSE f[CHOOSE y \in S : TRUE] + SumSet(S \ {CHOOSE y \in S : TRUE}, f)

\* sorted(set, reverse=False)
RECURSIVE SortAsc(_)
SortAsc(S) == IF S = {} THEN <<>> ELSE <<MinOf(S)>> \o SortAsc(S \ {MinOf(S)})

Seats(g) == 1..Len(g.players)

\* potential_winners: the seats (1-based) that have not folded
potential_winners(g) == {i \in Seats(g) : ~g.players[i].is_folded}

\* line 525: the distinct total_bets of the potential winners, lowest first
all_bets(g) == SortAsc({g.players[i].total_bet : i \in potential_winners(g)})

\* line 530: the seats of a bet level, taken from the non-folded players
LevelSeats(g, bet_level) ==
    {i \in potential_winners(g) : g.players[i].total_bet >= bet_level}

\* lines 534-543: the pot of one bet level, funded by its eligible seats
LevelPot(g, eligible, bet_level, prev) ==
    [amount |-> SumSet(eligible,
                       [i \in eligible |->
                          Min(bet_level - prev, g.players[i].total_bet - prev)]),
     eligible_players |-> eligible]

\* lines 528-543 for the sorted bet levels
LevelPots(g, levels) ==
    [k \in 1..Len(levels) |->
        LevelPot(g, LevelSeats(g, levels[k]), levels[k],
                 IF k > 1 THEN levels[k - 1] ELSE 0)] \o <<>>

\* lines 525-543: one side pot per distinct total_bet of a non-folded
\* player, lowest first
side_pots(g) == LevelPots(g, all_bets(g))

\* lines 563-569 with the odd chips dropped instead of handed out
PotShareFloor(amount, winners, i) == amount \div Cardinality(winners)

\* lines 563-569: what winner i takes from a pot shared by winners; the
\* odd chips go one each to the winners that come first in seat order
PotShare(amount, winners, i) ==
    (amount \div Cardinality(winners))
    + (IF Cardinality({j \in winners : j < i}) < amount % Cardinality(winners)
       THEN 1 ELSE 0)

\* lines 553-559 without the comparison: every eligible seat wins
pot_winners_all(eligible, strength) == eligible

\* lines 553-559: the eligible seats whose strength is the maximum
pot_winners(eligible, strength) ==
    {i \in eligible :
        \A j \in eligible : ~StrengthLess(strength[i], strength[j])}

\* list.append of the ids of s that are not in the list yet
RECURSIVE AppendNew(_, _)
AppendNew(list, s) ==
    IF s = <<>> THEN list
    ELSE AppendNew(IF Head(s) \in Range(list) THEN list
                   ELSE Append(list, Head(s)),
                   Tail(s))

\* the ids of the seats w, a list in seat order
WinnerIds(g, w) == [j \in 1..Len(w) |-> g.players[w[j]].id] \o <<>>

\* lines 572-573 over all pots: final_winners
RECURSIVE FinalWinners(_, _, _, _)
FinalWinners(g, pots, strength, k) ==
    IF k = 0 THEN <<>>
    ELSE AppendNew(FinalWinners(g, pots, strength, k - 1),
                   WinnerIds(g, SortAsc(pot_winners(pots[k].eligible_players,
                                                    strength))))

\* lines 518-521: player_hands, by seat
Strengths(g) ==
    [i \in Seats(g) |->
        IF i \in potential_winners(g)
        THEN evaluate_hand(g.players[i].cards, g.community_cards)
        ELSE <<-1, <<>>>>] \o <<>>

\* lines 562-570: the pot with what each seat is credited from it
CreditedPot(n, pot, w) ==
    [amount |-> pot.amount,
     eligible_players |-> pot.eligible_players,
     credited |-> [i \in 1..n |->
                     IF i \in w THEN PotShare(pot.amount, w, i) ELSE 0]
                  \o <<>>]

\* lines 548-570 over all pots
CreditedPots(n, formed, strength) ==
    [k \in 1..Len(formed) |->
        CreditedPot(n, formed[k],
                    pot_winners(formed[k].eligible_players, strength))]
    \o <<>>

\* what each seat is credited over all pots
Paid(n, pots) ==
    [i \in 1..n |-> SumSeq([k \in 1..Len(pots) |-> pots[k].credited[i]])]
    \o <<>>

\* lines 510-516: the only player left takes self.pot
SoleWinner(g, sole) ==
    [game |-> [g EXCEPT !.players[sole].chips = @ + g.pot, !.pot = 0],
     winners |-> <<g.players[sole].id>>,
     pots |-> <<>>,
     paid |-> [i \in Seats(g) |-> IF i = sole THEN g.pot ELSE 0] \o <<>>,
     evaluated |-> FALSE]

\* lines 570-577: the credits are added to the chips, self.pot is zeroed
PayOut(g, strength, pots, paid) ==
    [game |-> [g EXCEPT !.players =
                  [i \in Seats(g) |->
                     [g.players[i] EXCEPT !.chips = @ + paid[i]]] \o <<>>,
                  !.pot = 0],
     winners |-> FinalWinners(g, pots, strength, Len(pots)),
     pots |-> pots,
     paid |-> paid,
     evaluated |-> TRUE]

\* lines 545-575
ShareOut(g, strength, pots) ==
    PayOut(g, strength, pots, Paid(Len(g.players), pots))

\* lines 518-575
CompareHands(g, strength) ==
    ShareOut(g, strength, CreditedPots(Len(g.players), side_pots(g), strength))

\* determine_winners; besides the new table and the returned list it
\* reports the side pots it formed and what it credited to each seat
determine_winners(g) ==
    IF potential_winners(g) = {}
    THEN [game |-> g, winners |-> <<>>, pots |-> <<>>,
          paid |-> [i \in Seats(g) |-> 0] \o <<>>, evaluated |-> FALSE]
    ELSE IF Cardinality(potential_winners(g)) = 1
    THEN SoleWinner(g, CHOOSE i \in potential_winners(g) : TRUE)
    ELSE CompareHands(g, Strengths(g))

(***************************************************************************)
(* get_game_state: the snapshot of the table made for one recipient.  A    *)
(* card entry of the snapshot is the card, or card_back for the            *)
(* placeholder {'suit': 'back', 'rank': 'back', 'image': 'card_back.jpg'}. *)
(***************************************************************************)
card_back == 52

\* every card face up, whoever asks
ShownCardsToAll(g, p, player_id) == p.cards

\* lines 591-596: player p's cards as player_id gets to see them
ShownCards(g, p, player_id) ==
    IF player_id = p.id \/ g.game_state = "showdown"
    THEN p.cards
    ELSE [j \in 1..Len(p.cards) |-> card_back] \o <<>>

\* lines 598-607: players_data[pid]
PlayerData(g, p, player_id) ==
    [id |-> p.id, chips |-> p.chips, current_bet |-> p.current_bet,
     total_bet |-> p.total_bet, is_folded |-> p.is_folded,
     is_all_in |-> p.is_all_in,
     cards |-> ShownCards(g, p, player_id),
     is_current_player |->
        IF g.current_player_index # -1
        THEN At(g.players, g.current_player_index).id = p.id
        ELSE FALSE]

get_game_state(g, player_id) ==
    [game_state |-> g.game_state,
     players |-> [i \in 1..Len(g.players) |->
                    PlayerData(g, g.players[i], player_id)] \o <<>>,
     community_cards |-> g.community_cards,
     pot |-> g.pot,
     current_bet |-> g.current_bet,
     current_player_id |-> current_player_id(g),
     dealer_player_id |->
        IF g.dealer_position # -1
        THEN At(g.players, g.dealer_position).id ELSE None,
     small_blind |-> SmallBlind,
     big_blind |-> BigBlind]

(***************************************************************************)

(* PokerServer                                                             *)
(***************************************************************************)
ActiveInRound(g) == {i \in Seats(g) : can_act(g.players[i])}

\* lines 772 and 788: an active player who still owes chips or an action
Owes(g, p) ==
    ~p.is_all_in /\ (p.current_bet < g.current_bet \/ ~p.has_acted_this_round)

is_betting_round_complete(g) ==
    IF Cardinality(ActiveInRound(g)) <= 1 THEN TRUE
    ELSE IF \E i \in ActiveInRound(g) : Owes(g, g.players[i]) THEN FALSE
    ELSE IF /\ g.last_raiser # None
            /\ \A i \in ActiveInRound(g) :
                  g.players[i].id = g.last_raiser \/ ~Owes(g, g.players[i])
    THEN TRUE
    ELSE IF /\ g.current_bet = 0
            /\ \A i \in ActiveInRound(g) : g.players[i].has_acted_this_round
    THEN TRUE
    ELSE FALSE

\* the seat owes chips or an action, whether or not it can act
OwesAction(g, p) ==
    p.current_bet < g.current_bet \/ ~p.has_acted_this_round

\* line 825: the seat still has to act
NeedsToAct(g, p) ==
    can_act(p) /\ (p.current_bet < g.current_bet \/ ~p.has_acted_this_round)

\* lines 816-827: the steps from the actor to the seats that have to act
StepsToNext(g) ==
    {d \in 1..Len(g.players) :
        NeedsToAct(g, At(g.players,
                         (g.current_player_index + d) % Len(g.players)))}

\* the turn moved to the next seat of the ring, whoever sits there
advance_to_next_seat(g) ==
    IF Len(g.players) = 0 THEN [g EXCEPT !.current_player_index = -1]
    ELSE [g EXCEPT !.current_player_index = (@ + 1) % Len(g.players)]

advance_to_next_player(g) ==
    IF Len(g.players) = 0 THEN [g EXCEPT !.current_player_index = -1]
    ELSE IF StepsToNext(g) = {}
    THEN [g EXCEPT !.current_player_index =
                      (@ + Len(g.players)) % Len(g.players)]
    ELSE [g EXCEPT !.current_player_index =
                      (@ + MinOf(StepsToNext(g))) % Len(g.players)]

\* the end of the game that spares no street: fewer than two players with
\* chips is game_over, on a waiting table too
EndIfShortAnywhere(g) ==
    IF Cardinality({i \in 1..Len(g.players) : g.players[i].chips > 0}) < 2
    THEN [g EXCEPT !.game_state = "game_over"]
    ELSE g

\* lines 124-126: fewer than two players with chips ends a game that is
\* not waiting
EndIfShort(g) ==
    IF /\ Cardinality({i \in 1..Len(g.players) : g.players[i].chips > 0}) < 2
       /\ g.game_state # "waiting"
    THEN [g EXCEPT !.game_state = "game_over"]
    ELSE g

\* PokerGame.remove_player: the entry leaves the dict, the indices stay
remove_player(g, id) ==
    IF IndexOf(g.players, id) = -1 THEN g
    ELSE EndIfShort([g EXCEPT !.players =
                        Without(g.players, IndexOf(g.players, id) + 1)])

SumChips(g) == SumSeq([i \in Seats(g) |-> g.players[i].chips])

NonFoldedIds(g) == {g.players[i].id : i \in potential_winners(g)}

\* The server while one handler or one loop iteration runs: the table and
\* the bookkeeping of the hand, with the awards made so far in this step.
Server(g, c, d) ==
    [game |-> g, handStartChips |-> c, distributions |-> d, awards |-> <<>>]

Award(S, kind, nonfolded, pots, paid, after) ==
    [kind |-> kind, nth |-> S.distributions + 1, nonfolded |-> nonfolded,
     pots |-> pots, paid |-> paid,
     chips_start |-> S.handStartChips, chips_after |-> SumChips(after)]

\* how determine_winners came to its result
AwardKind(d) ==
    IF d.evaluated THEN "side_pots"
    ELSE IF d.winners = <<>> THEN "nobody" ELSE "survivor"

\* the server after determine_winners returned d
Distributed(S, d) ==
    [S EXCEPT !.game = d.game,
              !.distributions = @ + 1,
              !.awards = Append(@, Award(S, AwardKind(d), NonFoldedIds(S.game),
                                         d.pots, d.paid, d.game))]

\* handle_showdown: one run of the pot allocator
handle_showdown(S) == Distributed(S, determine_winners(S.game))

\* the server after start_new_hand returned r
Started(S, r) ==
    IF r.ok
    THEN [S EXCEPT !.game = r.game,
                   !.handStartChips = SumChips(S.game),
                   !.distributions = 0]
    ELSE [S EXCEPT !.game = r.game]

\* start_new_hand as the server calls it
StartHand(S, shuffled) == Started(S, start_new_hand(S.game, shuffled))

\* lines 864-865 and 888-889
ResetActed(S) ==
    [S EXCEPT !.game.players =
        [i \in Seats(S.game) |->
            [S.game.players[i] EXCEPT !.has_acted_this_round = FALSE]]
        \o <<>>]

\* line 877: active_players_in_hand
StillIn(g) ==
    {i \in Seats(g) : ~g.players[i].is_folded /\ g.players[i].chips > 0}

\* lines 880-883: the table after the pot went to the seat winner
LoneTable(g, winner) ==
    [g EXCEPT !.players[winner].chips = @ + g.pot,
              !.pot = 0,
              !.game_state = "showdown"]

\* lines 878-883 on the server
LoneAward(S, winner) ==
    [S EXCEPT !.game = LoneTable(S.game, winner),
              !.distributions = @ + 1,
              !.awards = Append(@,
                  Award(S, "lone", NonFoldedIds(S.game), <<>>,
                        [i \in Seats(S.game) |->
                            IF i = winner THEN S.game.pot ELSE 0] \o <<>>,
                        LoneTable(S.game, winner)))]

\* lines 875-891, the lone-survivor test that ends every loop iteration
LoneSurvivor(S, shuffled) ==
    IF /\ S.game.game_state \notin {"waiting", "game_over", "showdown"}
       /\ Cardinality(StillIn(S.game)) = 1
    THEN StartHand(ResetActed(LoneAward(S, CHOOSE i \in StillIn(S.game) : TRUE)),
                   shuffled)
    ELSE S

\* lines 739-740 and 854-855: showdown is handled as soon as it is reached
ShowdownIfReached(S) ==
    IF S.game.game_state = "showdown" THEN handle_showdown(S) ELSE S

\* lines 737 and 851 on the server
Advanced(S) == [S EXCEPT !.game = advance_to_next_street(S.game)]

\* lines 840-873, the branch on the street
LoopBranch(S, shuffled) ==
    IF S.game.game_state \in BettingStreets
    THEN IF is_betting_round_complete(S.game)
         THEN ShowdownIfReached(Advanced(S))
         ELSE S
    ELSE IF S.game.game_state = "showdown"
    THEN StartHand(ResetActed(handle_showdown(S)), shuffled)
    ELSE S

\* one iteration of game_loop
game_loop(S, shuffled1, shuffled2) ==
    LoneSurvivor(LoopBranch(S, shuffled1), shuffled2)

(***************************************************************************)

(* Shuffles: the outcomes of random.shuffle the model draws from.  Each is *)
(* a permutation of the canonical deck given by the cards that end up on   *)
(* top (the end of the list, drawn first), the rest keeping their order.   *)
(***************************************************************************)
Stack(top) ==
    LET rest == SelectSeq(CanonicalDeck, LAMBDA c : c \notin Range(top))
    IN  rest \o [i \in 1..Len(top) |-> top[Len(top) + 1 - i]]

hearts == 0
diamonds == 1
clubs == 2
spades == 3

\* first seat pair of aces, second seat pair of kings, third seat 7-2
TopCardsA ==
    <<Card(spades, 14), Card(spades, 13), Card(clubs, 7), Card(hearts, 14),
      Card(hearts, 13), Card(diamonds, 2),
      Card(clubs, 3), Card(diamonds, 9), Card(clubs, 4), Card(hearts, 6),
      Card(clubs, 5), Card(spades, 11), Card(clubs, 6), Card(diamonds, 12)>>

\* a straight on the board that nobody improves: every seat ties
TopCardsB ==
    <<Card(spades, 2), Card(hearts, 2), Card(diamonds, 3), Card(clubs, 3),
      Card(diamonds, 4), Card(clubs, 4),
      Card(clubs, 2), Card(diamonds, 10), Card(spades, 11), Card(hearts, 12),
      Card(diamonds, 2), Card(spades, 13), Card(hearts, 3), Card(clubs, 14)>>

\* first and second seat tie with the same two pair, third seat is behind
TopCardsC ==
    <<Card(spades, 14), Card(hearts, 14), Card(clubs, 2), Card(spades, 9),
      Card(hearts, 9), Card(diamonds, 3),
      Card(clubs, 5), Card(diamonds, 14), Card(clubs, 9), Card(hearts, 7),
      Card(clubs, 6), Card(spades, 11), Card(clubs, 8), Card(diamonds, 12)>>

Shuffles == {Stack(TopCardsA), Stack(TopCardsC)}

(***************************************************************************)
(* Steps.  In Spec every handler and every loop iteration is one step.     *)
(***************************************************************************)
Idle == [handler |-> "idle", loop |-> "idle"]

Did(op, reply, accepted, advanced, awards) ==
    [op |-> op, reply |-> reply, accepted |-> accepted,
     advanced |-> advanced, awards |-> awards]

Now == Server(game, handStartChips, distributions)

Install(S1) ==
    /\ game' = S1.game
    /\ handStartChips' = S1.handStartChips
    /\ distributions' = S1.distributions

SeatedIds == {game.players[i].id : i \in Seats(game)}

Init ==
    /\ game = NewGame
    /\ last = Did("init", None, FALSE, FALSE, <<>>)
    /\ nAccepted = 0
    /\ handStartChips = 0
    /\ distributions = 0
    /\ pc = Idle

\* send_to_client: the message goes out on the socket that self.clients
\* holds under player_id, and nowhere when it holds none.  The keys of
\* self.clients are the keys of game.players: both get the id at a
\* successful join (lines 673-674) and lose it together (lines 699-701).
send_to_client(clients, player_id, message) ==
    IF player_id \in clients THEN message ELSE None

\* handle_client, lines 669-682: a join message; the reply of the step is
\* the message that goes out on a socket
Join(id) ==
    \E r \in {add_player(game, id)} :
        /\ pc = Idle
        /\ game' = r.game
        /\ last' = Did("join",
                       IF r.ok
                       THEN send_to_client(SeatedIds \cup {id}, id,
                                           "join_success")
                       ELSE send_to_client(SeatedIds, id, "join_failed"),
                       FALSE, FALSE, <<>>)
        /\ UNCHANGED <<nAccepted, handStartChips, distributions, pc>>

\* handle_client, lines 696-703: the connection of a joined player ends
Disconnect(id) ==
    /\ pc = Idle
    /\ game' = remove_player(game, id)
    /\ last' = Did("disconnect", None, FALSE, FALSE, <<>>)
    /\ UNCHANGED <<nAccepted, handStartChips, distributions, pc>>

\* process_client_message, lines 709-719: a start_game message
StartGame(shuffled) ==
    /\ pc = Idle
    /\ IF game.game_state = "waiting" /\ Len(game.players) >= 2
       THEN \E r \in {start_new_hand(game, shuffled)} :
               /\ Install(Started(Now, r))
               /\ last' = Did("start_game",
                              IF r.ok THEN None ELSE "error",
                              FALSE, FALSE, <<>>)
       ELSE /\ last' = Did("start_game", "error", FALSE, FALSE, <<>>)
            /\ UNCHANGED <<game, handStartChips, distributions>>
    /\ UNCHANGED <<nAccepted, pc>>

\* lines 735-742: after an accepted action that left the table g
AfterAction(S, g, complete) ==
    IF complete
    THEN ShowdownIfReached(Advanced([S EXCEPT !.game = g]))
    ELSE [S EXCEPT !.game = advance_to_next_player(g)]

\* lines 731-746: the current actor's action, with process_action's result r
Acted(r, complete) ==
    IF r.ok
    THEN \E S1 \in {AfterAction(Now, r.game, complete)} :
            /\ Install(S1)
            /\ nAccepted' = nAccepted + 1
            /\ last' = Did("action", None, TRUE, complete, S1.awards)
    ELSE /\ Install([Now EXCEPT !.game = r.game])
         /\ last' = Did("action", "action_failed: invalid",
                        FALSE, FALSE, <<>>)
         /\ UNCHANGED nAccepted

\* process_client_message, lines 721-750: an action message
ClientAction(id, action, amount) ==
    /\ pc = Idle
    /\ IF game.game_state \in BettingStreets
       THEN IF id = current_player_id(game)
            THEN \E r \in {process_action(game, id, action, amount)} :
                    Acted(r, r.ok /\ is_betting_round_complete(r.game))
            ELSE /\ last' = Did("action", "action_failed: not your turn",
                                FALSE, FALSE, <<>>)
                 /\ UNCHANGED <<game, nAccepted, handStartChips,
                                distributions>>
       ELSE /\ last' = Did("action", "action_failed: not allowed",
                           FALSE, FALSE, <<>>)
            /\ UNCHANGED <<game, nAccepted, handStartChips, distributions>>
    /\ UNCHANGED pc

\* game_loop, lines 837-891: one iteration
Tick(shuffled1, shuffled2) ==
    \E S1 \in {game_loop(Now, shuffled1, shuffled2)} :
        /\ pc = Idle
        /\ Install(S1)
        /\ last' = IF S1 = Now THEN last
                   ELSE Did("tick", None, FALSE,
                            /\ game.game_state \in BettingStreets
                            /\ is_betting_round_complete(game),
                            S1.awards)
        /\ UNCHANGED <<nAccepted, pc>>

\* The clients of the model: the players of PlayerIds join a waiting table
\* one after the other, each once, and submit messages until MaxActions
\* actions have been accepted.
ClientsActive == nAccepted < MaxActions

NextJoiner ==
    {PlayerIds[i] : i \in {j \in 1..Len(PlayerIds) :
                              /\ PlayerIds[j] \notin SeatedIds
                              /\ \A k \in 1..(j - 1) : PlayerIds[k] \in SeatedIds}}

\* the shuffles a loop iteration draws: one for each hand it starts
FirstDraw ==
    IF game.game_state = "showdown" THEN Shuffles ELSE {CanonicalDeck}

\* lines 877-878: the iteration goes on to start a hand for a lone survivor
LoneAhead(S) ==
    /\ S.game.game_state \in BettingStreets
    /\ Cardinality(StillIn(S.game)) = 1

SecondDraw(shuffled1) ==
    IF LoneAhead(LoopBranch(Now, shuffled1))
    THEN Shuffles ELSE {CanonicalDeck}

\* the amounts a client sends with an action: a raise names its target
Amounts(action) == IF action = "raise" THEN RaiseTargets ELSE {0}

JoinStep ==
    \E id \in NextJoiner :
        ClientsActive /\ game.game_state = "waiting" /\ Join(id)

StartGameStep ==
    \E shuffled \in Shuffles :
        ClientsActive /\ Len(game.players) > 0 /\ StartGame(shuffled)

ClientActionStep ==
    \E id \in SeatedIds, action \in ActionNames :
        \E amount \in Amounts(action) :
            ClientsActive /\ ClientAction(id, action, amount)

TickStep ==
    \E shuffled1 \in FirstDraw :
        \E shuffled2 \in SecondDraw(shuffled1) :
            Tick(shuffled1, shuffled2)

Next == JoinStep \/ StartGameStep \/ ClientActionStep \/ TickStep

Spec == Init /\ [][Next]_vars

(***************************************************************************)
(* SpecPot: the pot allocator on river tables.  The table is drawn at the  *)
(* river with nothing bet on it: three seats, p1 the dealer, each with a   *)
(* total_bet of PotBets; a seat that has not folded and is below the       *)
(* highest total_bet is all-in; the seats that can act have checked, but   *)
(* for the last of them in turn order, who is the current actor.  The pot  *)
(* holds what process_action and the street sweeps have added to it.       *)
(***************************************************************************)
PotBets == {25, 100, 300}

PotShuffles == {Stack(TopCardsA), Stack(TopCardsB), Stack(TopCardsC)}

\* the seats that are all-in: not folded and below the highest total_bet
AllInSeats(bets, folded) ==
    {i \in 1..Len(bets) : ~folded[i] /\ bets[i] < MaxOf(Range(bets))}

\* the seats that can act: not folded and in for the highest total_bet
AbleSeats(bets, folded) ==
    {i \in 1..Len(bets) : ~folded[i] /\ bets[i] = MaxOf(Range(bets))}

\* turn order on a street with the dealer at seat 1: the seats after the
\* dealer first, the dealer last
TurnRank(n, i) == IF i = 1 THEN n ELSE i - 1

\* the last seat of able in turn order, 0 if there is none
LastInTurn(n, able) ==
    IF able = {} THEN 0
    ELSE CHOOSE i \in able : \A j \in able : TurnRank(n, j) <= TurnRank(n, i)

\* the deck and the board after flop, turn and river
RiverBoard(shuffled, n) ==
    DealStreet(DealStreet(DealStreet(
        [deck |-> SubSeq(shuffled, 1, Len(shuffled) - 2 * n),
         community_cards |-> <<>>], 3), 1), 1)

RiverSeats(bets, folded, shuffled, allin, able, final, dealt) ==
    [players |-> [i \in 1..Len(bets) |->
        [id |-> PlayerIds[i],
         chips |-> IF i \in allin THEN 0 ELSE StartingChips - bets[i],
         cards |-> HoleCards(shuffled, Len(bets), i - 1),
         current_bet |-> 0, total_bet |-> bets[i],
         is_folded |-> folded[i], is_all_in |-> i \in allin,
         has_acted_this_round |->
             (i \in able /\ i # final /\ Cardinality(able) >= 2)]] \o <<>>,
     community_cards |-> dealt.community_cards,
     deck |-> dealt.deck,
     pot |-> 2 * SumSeq(bets),
     current_bet |-> 0,
     dealer_position |-> 0,
     current_player_index |-> final - 1,
     game_state |-> "river",
     action_history |-> IF Cardinality(able) >= 2
                        THEN Cardinality(able) - 1 ELSE 0,
     last_raiser |-> None]

RiverTable(bets, folded, shuffled) ==
    RiverSeats(bets, folded, shuffled,
               AllInSeats(bets, folded), AbleSeats(bets, folded),
               LastInTurn(Len(bets), AbleSeats(bets, folded)),
               RiverBoard(shuffled, Len(bets)))

InitPot ==
    \E bets \in [1..Len(PlayerIds) -> PotBets],
       folded \in [1..Len(PlayerIds) -> BOOLEAN],
       shuffled \in PotShuffles :
        /\ \E i \in 1..Len(PlayerIds) : ~folded[i]
        /\ game = RiverTable(bets, folded, shuffled)
        /\ last = Did("init", None, FALSE, FALSE, <<>>)
        /\ nAccepted = MaxActions - 1
        /\ handStartChips = SumChips(game) + SumSeq(bets)
        /\ distributions = 0
        /\ pc = Idle

NextPot == ClientActionStep \/ TickStep

SpecPot == InitPot /\ [][NextPot]_vars

(***************************************************************************)
(* SpecThreads: the client-handler thread and the game_loop thread run     *)
(* without a lock on the table.  A thread can be preempted between the     *)
(* calls it makes (process_action, is_betting_round_complete,              *)
(* advance_to_next_street, ...); pc holds where each thread is.            *)
(***************************************************************************)
At_(thread, label) == pc[thread] = label

Goto(thread, label) == pc' = [pc EXCEPT ![thread] = label]

\* lines 721-731: the handler receives an action and applies it
HandlerProcess(id, action, amount) ==
    \E r \in {process_action(game, id, action, amount)} :
        /\ At_("handler", "idle")
        /\ game.game_state \in BettingStreets
        /\ id = current_player_id(game)
        /\ game' = r.game
        /\ IF r.ok
           THEN /\ nAccepted' = nAccepted + 1
                /\ last' = Did("action", None, TRUE, FALSE, <<>>)
                /\ Goto("handler", "decide")
           ELSE /\ last' = Did("action", "action_failed: invalid",
                               FALSE, FALSE, <<>>)
                /\ UNCHANGED <<nAccepted, pc>>
        /\ UNCHANGED <<handStartChips, distributions>>

\* line 735: the handler evaluates the round-complete predicate
HandlerDecide ==
    /\ At_("handler", "decide")
    /\ Goto("handler", IF is_betting_round_complete(game)
                       THEN "advance" ELSE "next")
    /\ UNCHANGED <<game, last, nAccepted, handStartChips, distributions>>

\* lines 737-740: the handler advances the street
HandlerAdvance ==
    \E S1 \in {ShowdownIfReached(Advanced(Now))} :
        /\ At_("handler", "advance")
        /\ Install(S1)
        /\ last' = Did("action", None, TRUE, TRUE, S1.awards)
        /\ Goto("handler", "idle")
        /\ UNCHANGED nAccepted

\* line 742: the handler moves the turn
HandlerNext ==
    /\ At_("handler", "next")
    /\ game' = advance_to_next_player(game)
    /\ Goto("handler", "idle")
    /\ UNCHANGED <<last, nAccepted, handStartChips, distributions>>

\* lines 846-849: the loop finds the round complete in a betting street
LoopDecide ==
    /\ At_("loop", "idle")
    /\ game.game_state \in BettingStreets
    /\ is_betting_round_complete(game)
    /\ Goto("loop", "advance")
    /\ UNCHANGED <<game, last, nAccepted, handStartChips, distributions>>

\* lines 851-855 and 875-891: the loop advances the street and finishes
\* its iteration
LoopAdvance(shuffled) ==
    \E S1 \in {LoneSurvivor(ShowdownIfReached(Advanced(Now)), shuffled)} :
        /\ At_("loop", "advance")
        /\ Install(S1)
        /\ last' = Did("tick", None, FALSE, TRUE, S1.awards)
        /\ Goto("loop", "idle")
        /\ UNCHANGED nAccepted

\* the other iterations of the loop: the round is not complete, or the
\* street is not a betting street
LoopOther(shuffled1, shuffled2) ==
    \E S1 \in {game_loop(Now, shuffled1, shuffled2)} :
        /\ At_("loop", "idle")
        /\ ~(/\ game.game_state \in BettingStreets
             /\ is_betting_round_complete(game))
        /\ S1 # Now
        /\ Install(S1)
        /\ last' = Did("tick", None, FALSE, FALSE, S1.awards)
        /\ UNCHANGED <<nAccepted, pc>>

HandlerProcessStep ==
    \E id \in SeatedIds, action \in ActionNames :
        \E amount \in Amounts(action) :
            ClientsActive /\ HandlerProcess(id, action, amount)

LoopAdvanceStep == \E shuffled \in Shuffles : LoopAdvance(shuffled)

LoopOtherStep ==
    \E shuffled1 \in FirstDraw :
        \E shuffled2 \in SecondDraw(shuffled1) :
            LoopOther(shuffled1, shuffled2)

StartWaitingStep == game.game_state = "waiting" /\ StartGameStep

NextThreads ==
    \/ JoinStep
    \/ StartWaitingStep
    \/ HandlerProcessStep
    \/ HandlerDecide
    \/ HandlerAdvance
    \/ HandlerNext
    \/ LoopDecide
    \/ LoopAdvanceStep
    \/ LoopOtherStep

SpecThreads == Init /\ [][NextThreads]_vars

(***************************************************************************)
(* SpecStacks: a hand between players of different stacks.  The table is   *)
(* drawn as start_new_hand leaves it when earlier hands have left each of  *)
(* the three seats with one of StackSizes chips and the button at the      *)
(* first seat: start_new_hand resets every other field of the table and of *)
(* the players.  The clients name raise targets of StackTargets: below the *)
(* minimum raise, a legal raise, and more than a short stack holds.        *)
(***************************************************************************)
StackSizes == {150, 1000}

StackTargets == {30, 300, 400}

\* the table between two hands: seat i holds stacks[i] chips
BetweenHands(stacks) ==
    [NewGame EXCEPT
        !.players = [i \in 1..Len(stacks) |->
                        [NewPlayer(PlayerIds[i]) EXCEPT !.chips = stacks[i]]]
                    \o <<>>,
        !.dealer_position = 0]

InitStacks ==
    \E stacks \in [1..Len(PlayerIds) -> StackSizes] :
        \E S1 \in {StartHand(Server(BetweenHands(stacks), 0, 0),
                             Stack(TopCardsA))} :
            /\ game = S1.game
            /\ handStartChips = S1.handStartChips
            /\ distributions = S1.distributions
            /\ last = Did("init", None, FALSE, FALSE, <<>>)
            /\ nAccepted = 0
            /\ pc = Idle

StackAmounts(action) == IF action = "raise" THEN StackTargets ELSE {0}

StackActionStep ==
    \E id \in SeatedIds, action \in ActionNames :
        \E amount \in StackAmounts(action) :
            ClientsActive /\ ClientAction(id, action, amount)

NextStacks == StackActionStep \/ TickStep

SpecStacks == InitStacks /\ [][NextStacks]_vars

(***************************************************************************)
(* SpecLobby: two clients who join, leave and join again at any time, and  *)
(* play heads-up in between.  At a table of two a disconnect leaves fewer  *)
(* than two players, so no hand goes on with a seat removed.               *)
(***************************************************************************)
LobbyIds == {PlayerIds[1], PlayerIds[2]}

LobbyJoinStep == \E id \in LobbyIds \ SeatedIds : Join(id)

LobbyLeaveStep == \E id \in SeatedIds : Disconnect(id)

NextLobby ==
    \/ LobbyJoinStep
    \/ LobbyLeaveStep
    \/ StartGameStep
    \/ ClientActionStep
    \/ TickStep

SpecLobby == Init /\ [][NextLobby]_vars

(***************************************************************************)
(* SpecSeats: a waiting table and one client more than it has seats; the   *)
(* clients join and leave in any order.                                    *)
(***************************************************************************)
SeatIds == {"p1", "p2", "p3", "p4", "p5", "p6", "p7"}

SeatJoinStep == \E id \in SeatIds \ SeatedIds : Join(id)

SeatLeaveStep == \E id \in SeatedIds : Disconnect(id)

NextSeats == SeatJoinStep \/ SeatLeaveStep

SpecSeats == Init /\ [][NextSeats]_vars

(***************************************************************************)
(* A hand with blind posters who may be short: two or three seats start    *)
(* the hand with a stack of ShortSizes, the smaller one below the small    *)
(* blind.                                                                  *)
(***************************************************************************)
ShortSizes == {5, 1000}

ShortTargets == {8, 40}

InitShort ==
    \E stacks \in [1..2 -> ShortSizes] \cup [1..Len(PlayerIds) -> ShortSizes] :
        \E S1 \in {StartHand(Server(BetweenHands(stacks), 0, 0),
                             Stack(TopCardsA))} :
            /\ S1.game.game_state = "pre_flop"
            /\ game = S1.game
            /\ handStartChips = S1.handStartChips
            /\ distributions = S1.distributions
            /\ last = Did("init", None, FALSE, FALSE, <<>>)
            /\ nAccepted = 0
            /\ pc = Idle

ShortAmounts(action) == IF action = "raise" THEN ShortTargets ELSE {0}

ShortActionStep ==
    \E id \in SeatedIds, action \in ActionNames :
        \E amount \in ShortAmounts(action) :
            ClientsActive /\ ClientAction(id, action, amount)

NextShort == ShortActionStep \/ TickStep

SpecShort == InitShort /\ [][NextShort]_vars

(***************************************************************************)
(* A client joins in the middle of a hand: the first two players of        *)
(* PlayerIds play a hand, and at any point of it the third one joins.      *)
(***************************************************************************)
InitLate ==
    \E S1 \in {StartHand(Server(BetweenHands(<<StartingChips, StartingChips>>),
                                 0, 0),
                          Stack(TopCardsA))} :
        /\ game = S1.game
        /\ handStartChips = S1.handStartChips
        /\ distributions = S1.distributions
        /\ last = Did("init", None, FALSE, FALSE, <<>>)
        /\ nAccepted = 0
        /\ pc = Idle

LateJoinStep ==
    \E id \in Range(PlayerIds) \ SeatedIds :
        game.game_state \in BettingStreets /\ Join(id)

NextLate == LateJoinStep \/ ClientActionStep \/ TickStep

SpecLate == InitLate /\ [][NextLate]_vars

(***************************************************************************)
(* One hand played to the end: three players with stacks of StackSizes,    *)
(* nobody joins or leaves, the current actor submits actions for as long   *)
(* as the hand lasts and the accepted ones are not counted.  The hand is   *)
(* followed until a pot is distributed.  The loop iterates for ever (line  *)
(* 837) and the current actor keeps submitting legal actions.              *)
(***************************************************************************)
HandDone == last.awards # <<>>

\* equal stacks, or a short stack on the big blind or on the first to act
LiveStacks ==
    {<<MaxOf(StackSizes), MaxOf(StackSizes), MaxOf(StackSizes)>>,
     <<MinOf(StackSizes), MaxOf(StackSizes), MaxOf(StackSizes)>>,
     <<MaxOf(StackSizes), MinOf(StackSizes), MaxOf(StackSizes)>>}

InitLive ==
    \E stacks \in LiveStacks :
        \E S1 \in {StartHand(Server(BetweenHands(stacks), 0, 0),
                             Stack(TopCardsA))} :
            /\ game = S1.game
            /\ handStartChips = S1.handStartChips
            /\ distributions = S1.distributions
            /\ last = Did("init", None, FALSE, FALSE, <<>>)
            /\ nAccepted = 0
            /\ pc = Idle

\* lines 731-746, as Acted
LiveActed(r, complete) ==
    IF r.ok
    THEN \E S1 \in {AfterAction(Now, r.game, complete)} :
            /\ Install(S1)
            /\ last' = Did("action", None, TRUE, complete, S1.awards)
    ELSE /\ Install([Now EXCEPT !.game = r.game])
         /\ last' = Did("action", "action_failed: invalid",
                        FALSE, FALSE, <<>>)

\* process_client_message, lines 721-750, as ClientAction
LiveAction(id, action, amount) ==
    /\ pc = Idle
    /\ IF game.game_state \in BettingStreets
       THEN IF id = current_player_id(game)
            THEN \E r \in {process_action(game, id, action, amount)} :
                    LiveActed(r, r.ok /\ is_betting_round_complete(r.game))
            ELSE /\ last' = Did("action", "action_failed: not your turn",
                                FALSE, FALSE, <<>>)
                 /\ UNCHANGED <<game, handStartChips, distributions>>
       ELSE /\ last' = Did("action", "action_failed: not allowed",
                           FALSE, FALSE, <<>>)
            /\ UNCHANGED <<game, handStartChips, distributions>>
    /\ UNCHANGED <<nAccepted, pc>>

\* a raise names the target StartingChips - BigBlind
LiveAmounts(action) == IF action = "raise" THEN {StartingChips - BigBlind} ELSE {0}

LiveActionStep ==
    \E id \in SeatedIds \cap {current_player_id(game)}, action \in ActionNames :
        \E amount \in LiveAmounts(action) :
            ~HandDone /\ LiveAction(id, action, amount)

LiveTickStep == ~HandDone /\ TickStep

NextLive == LiveActionStep \/ LiveTickStep

\* a loop iteration would change the state
TickCan ==
    /\ ~HandDone
    /\ \E shuffled1 \in FirstDraw :
          \E shuffled2 \in SecondDraw(shuffled1) :
             game_loop(Now, shuffled1, shuffled2) # Now

\* the current actor has a legal action: one that process_action accepts
LegalCan ==
    /\ ~HandDone
    /\ game.game_state \in BettingStreets
    /\ \E id \in SeatedIds \cap {current_player_id(game)} :
          \E action \in ActionNames :
             \E amount \in LiveAmounts(action) :
                process_action(game, id, action, amount).ok

\* the step is a loop iteration that changed the state
TickTaken == last'.op = "tick"

\* the step is an action of the current actor that was accepted
LegalTaken == last'.op = "action" /\ last'.accepted

\* Weak fairness of the loop iteration and of the actor's legal action,
\* WF_vars(A) written out as []<>~ENABLED <<A>>_vars \/ []<><<A>>_vars with
\* the enabling conditions TickCan and LegalCan.
SpecLive ==
    /\ InitLive
    /\ [][NextLive]_vars
    /\ ([]<>(~TickCan) \/ []<><<TickTaken>>_vars)
    /\ ([]<>(~LegalCan) \/ []<><<LegalTaken>>_vars)

(***************************************************************************)
(* A client leaves in the middle of a hand: three players with stacks of   *)
(* StackSizes play a hand, and at any point of it one of them              *)
(* disconnects.  The specification follows the table up to the removal.    *)
(***************************************************************************)
FullTable == Len(game.players) = Len(PlayerIds)

LeaveActionStep == FullTable /\ StackActionStep

LeaveStep ==
    \E id \in SeatedIds :
        FullTable /\ game.game_state \in BettingStreets /\ Disconnect(id)

LeaveTickStep == FullTable /\ TickStep

NextLeave == LeaveActionStep \/ LeaveTickStep \/ LeaveStep

SpecLeave == InitStacks /\ [][NextLeave]_vars

(***************************************************************************)
(* The evaluator on its own: a table at showdown whose one player holds    *)
(* the first two cards of a hand of five to seven cards and whose board    *)
(* is the rest; the step is the call evaluate_hand(player.cards,           *)
(* community_cards) of determine_winners, line 524.                        *)
(***************************************************************************)
\* the subsets of pool with lo to hi cards
Picks(pool, lo, hi) ==
    {H \in SUBSET pool : Cardinality(H) \in lo..hi}

\* kings and threes with 9, 7, 2
PairedHand ==
    {Card(clubs, 2), Card(diamonds, 7), Card(hearts, 9), Card(spades, 13),
     Card(diamonds, 13), Card(clubs, 3), Card(diamonds, 3)}

\* hearts from ten to ace, two low hearts, and a ten and a jack off suit
RoyalPool ==
    {Card(hearts, 10), Card(hearts, 11), Card(hearts, 12), Card(hearts, 13),
     Card(hearts, 14), Card(hearts, 2), Card(hearts, 5), Card(spades, 10),
     Card(diamonds, 11)}

\* hearts 5 to 8 with the king and the deuce, and the nine in three suits
FlushPool ==
    {Card(hearts, 5), Card(hearts, 6), Card(hearts, 7), Card(hearts, 8),
     Card(hearts, 13), Card(hearts, 2), Card(spades, 9), Card(clubs, 4),
     Card(hearts, 9)}

\* ace to five in mixed suits
WheelCards ==
    {Card(spades, 14), Card(spades, 2), Card(diamonds, 3), Card(clubs, 4),
     Card(hearts, 5)}

WheelPool ==
    {Card(diamonds, 6), Card(clubs, 7), Card(hearts, 9), Card(diamonds, 11),
     Card(clubs, 13), Card(spades, 9), Card(spades, 12)}

\* the four fives
QuadCards ==
    {Card(hearts, 5), Card(diamonds, 5), Card(clubs, 5), Card(spades, 5)}

QuadPool ==
    {Card(hearts, 3), Card(diamonds, 3), Card(clubs, 3), Card(spades, 13),
     Card(diamonds, 9), Card(clubs, 14)}

\* kings, nines and sevens in pairs, with a three and an ace
PairsPool ==
    {Card(spades, 13), Card(diamonds, 13), Card(hearts, 9), Card(clubs, 9),
     Card(diamonds, 7), Card(clubs, 7), Card(hearts, 3), Card(clubs, 14)}

\* the hands the evaluator is given
EvalHands ==
    {PairedHand}
       \cup Picks(PairsPool, 5, 7)
       \cup Picks(RoyalPool, 5, 7)
       \cup Picks(FlushPool, 5, 7)
       \cup {WheelCards \cup X : X \in Picks(WheelPool, 2, 2)}
       \cup {QuadCards \cup X : X \in Picks(QuadPool, 1, 3)}

\* the hand dealt out: hole cards first, then the board
ShowdownTable(cards) ==
    [NewGame EXCEPT
        !.game_state = "showdown",
        !.players = <<[NewPlayer("p1") EXCEPT !.cards = SubSeq(cards, 1, 2)]>>,
        !.community_cards = SubSeq(cards, 3, Len(cards))]

InitEval ==
    /\ game \in {ShowdownTable(SortAsc(H)) : H \in EvalHands}
    /\ last = Did("init", None, FALSE, FALSE, <<>>)
    /\ nAccepted = 0
    /\ handStartChips = 0
    /\ distributions = 0
    /\ pc = Idle

\* line 524: player_hand_strengths[pid] = evaluate_hand(...)
EvaluateStep ==
    /\ last.op = "init"
    /\ last' = Did("evaluate_hand",
                   evaluate_hand(game.players[1].cards, game.community_cards),
                   FALSE, FALSE, <<>>)
    /\ UNCHANGED <<game, nAccepted, handStartChips, distributions, pc>>

NextEval == EvaluateStep

SpecEval == InitEval /\ [][NextEval]_vars

(***************************************************************************)
(* Properties                                                              *)
(***************************************************************************)
Awards == {last.awards[k] : k \in 1..Len(last.awards)}

SumCurrentBets(g) == SumSeq([i \in Seats(g) |-> g.players[i].current_bet])

\* chips in the stacks, in the pot and in the bets not collected yet
ChipsInPlay(g) == SumChips(g) + g.pot + SumCurrentBets(g)

\* the current actor's id, read off the seat index
Actor(g) ==
    IF g.current_player_index = -1 THEN None
    ELSE g.players[g.current_player_index + 1].id

\* the step just taken was an accepted action or a street advance inside
\* a hand, and distributed nothing
BettingStep ==
    /\ game.game_state \in BettingStreets
    /\ game'.game_state \in BettingStreets \cup {"showdown"}
    /\ last'.op \in {"action", "tick"}
    /\ last'.accepted \/ last'.advanced
    /\ last'.awards = <<>>

\* C1: from the blinds to the distribution of the pot, every accepted
\* action and every street advance leaves
\* sum(chips) + pot + sum(current_bet) unchanged.
C1_ChipConservation ==
    [][BettingStep => ChipsInPlay(game') = ChipsInPlay(game)]_vars

\* C2: once a hand's pot has been distributed, the players together hold
\* the chips they held when start_new_hand began.
C2_DistributionReturnsCommittedChips ==
    \A a \in Awards : a.nth = 1 => a.chips_after = a.chips_start

\* C3: a hand's pot is credited once; a second run of the allocator in the
\* same hand increases no player's chips.
C3_OneDistributionPerHand ==
    \A a \in Awards : a.nth >= 2 => \A i \in DOMAIN a.paid : a.paid[i] = 0

\* C4: the whole pot goes to one player without hand evaluation only when
\* that player is the only one who has not folded.
C4_SoleAwardOnlyToLastNonFolded ==
    \A a \in Awards :
        a.kind \in {"lone", "survivor"} => Cardinality(a.nonfolded) = 1

\* the side-pot thresholds of a table: the distinct total_bets of the
\* players who have not folded, lowest first
Thresholds(g) ==
    SortAsc({g.players[i].total_bet :
                i \in {j \in Seats(g) : ~g.players[j].is_folded}})

\* the awards the allocator made by comparing hands, while the table still
\* shows the bets and the cards they were made from
ShowdownAwards ==
    IF game.game_state = "showdown"
    THEN {a \in Awards : a.kind = "side_pots"} ELSE {}

\* C5: the side pot of a threshold holds (threshold - previous threshold)
\* chips for every player, folded or not, whose total_bet reaches the
\* threshold; only the non-folded ones among them can win it.
C5_SidePotSizes ==
    \A a \in ShowdownAwards :
        LET th == Thresholds(game)
        IN  /\ Len(a.pots) = Len(th)
            /\ \A k \in 1..Len(th) :
                  LET prev == IF k = 1 THEN 0 ELSE th[k - 1]
                      funding == {i \in Seats(game) :
                                    game.players[i].total_bet >= th[k]}
                  IN  /\ a.pots[k].amount = (th[k] - prev) * Cardinality(funding)
                      /\ a.pots[k].eligible_players =
                            {i \in funding : ~game.players[i].is_folded}

\* the hands at the table, by seat
Hands(g) ==
    [i \in Seats(g) |->
        evaluate_hand(g.players[i].cards, g.community_cards)] \o <<>>

\* A (seat 1) is all-in for 100, B (seat 2) and C (seat 3) are in for 300,
\* nobody has folded, A holds the best hand and B beats C
SidePotScenario ==
    /\ game.game_state = "showdown"
    /\ distributions = 1
    /\ Len(game.players) = 3
    /\ \A i \in 1..3 : ~game.players[i].is_folded
    /\ game.players[1].total_bet = 100 /\ game.players[1].is_all_in
    /\ game.players[2].total_bet = 300
    /\ game.players[3].total_bet = 300
    /\ StrengthLess(Hands(game)[2], Hands(game)[1])
    /\ StrengthLess(Hands(game)[3], Hands(game)[2])

\* C6: in the scenario one run of the allocator forms a pot of 300 for
\* {A, B, C} and a pot of 400 for {B, C}; A is credited 300, B 400, C 0.
C6_SidePotScenario ==
    SidePotScenario =>
        \A a \in ShowdownAwards :
            /\ Len(a.pots) = 2
            /\ a.pots[1].amount = 300 /\ a.pots[1].eligible_players = {1, 2, 3}
            /\ a.pots[2].amount = 400 /\ a.pots[2].eligible_players = {2, 3}
            /\ a.paid = <<300, 400, 0>>
            /\ game.players[1].chips = 300
            /\ a.chips_after = a.chips_start

C6_Witness == SidePotScenario /\ ShowdownAwards # {}

\* the eligible seats of a pot that hold the best hand
BestOf(pot, hs) ==
    {i \in pot.eligible_players :
        \A j \in pot.eligible_players : ~StrengthLess(hs[i], hs[j])}

\* C7: a side pot is credited to the eligible players with the best hand
\* only; k tied winners get floor(amount / k) each and the amount mod k odd
\* chips go one each to the first of them in seat order, so the credits add
\* up to the amount and differ by at most one chip.
C7_SplitWithinPot ==
    \A a \in ShowdownAwards :
        LET hs == Hands(game)
        IN  \A k \in 1..Len(a.pots) :
               LET pot == a.pots[k]
                   best == BestOf(pot, hs)
                   share == pot.amount \div Cardinality(best)
                   odd == pot.amount % Cardinality(best)
               IN  /\ \A i \in Seats(game) \ best : pot.credited[i] = 0
                   /\ \A i \in best :
                         pot.credited[i] = share +
                            (IF Cardinality({j \in best : j < i}) < odd
                             THEN 1 ELSE 0)
                   /\ SumSeq(pot.credited) = pot.amount
                   /\ \A i, j \in best :
                         pot.credited[i] - pot.credited[j] \in {-1, 0, 1}

\* a pot split among tied winners that leaves odd chips
C7_Witness ==
    \E a \in ShowdownAwards :
        \E k \in 1..Len(a.pots) :
            LET best == BestOf(a.pots[k], Hands(game))
            IN  /\ Cardinality(best) >= 2
                /\ a.pots[k].amount % Cardinality(best) # 0

\* C8: advance_to_next_street is only ever called in a betting street
\* whose round is complete.
C8_AdvanceOnlyWhenRoundComplete ==
    [][(\/ pc["handler"] = "advance" /\ pc'["handler"] = "idle"
        \/ pc["loop"] = "advance" /\ pc'["loop"] = "idle")
       => (/\ game.game_state \in BettingStreets
           /\ is_betting_round_complete(game))]_vars

\* the rule reasons for which the current actor's action is refused
RuleRejected(g, id, action, amount) ==
    LET p == g.players[IndexOf(g.players, id) + 1]
    IN  \/ action = "check" /\ g.current_bet > p.current_bet
        \/ action = "call" /\ g.current_bet - p.current_bet <= 0
        \/ action = "raise" /\ amount <= g.current_bet
        \/ action \notin {"fold", "check", "call", "raise", "all_in"}

\* C9: an action of the current actor that is refused for a rule reason
\* leaves the table as it was, the actor's acted flag included, and so
\* cannot complete the betting round.
C9_RejectedActionChangesNothing ==
    [][\A id \in SeatedIds, action \in ActionNames :
          \A amount \in Amounts(action) :
             (/\ game.game_state \in BettingStreets
              /\ id = Actor(game)
              /\ RuleRejected(game, id, action, amount)
              /\ ClientAction(id, action, amount))
             => /\ game' = game
                /\ is_betting_round_complete(game')
                      => is_betting_round_complete(game)]_vars

\* C10: an action sent by anyone but the current actor is refused and
\* leaves the table unchanged.
C10_WrongTurnRejected ==
    [][\A id \in SeatedIds, action \in ActionNames :
          \A amount \in Amounts(action) :
             (id # Actor(game) /\ ClientAction(id, action, amount))
             => /\ game' = game
                /\ last'.reply \in {"action_failed: not your turn",
                                    "action_failed: not allowed"}]_vars

\* a player other than the actor has just been turned away in a hand
C10_Witness ==
    /\ game.game_state \in BettingStreets
    /\ Actor(game) # None
    /\ last.op = "action"
    /\ last.reply = "action_failed: not your turn"

\* the table on which line 735 decides: the one process_action leaves
Decided(id, action, amount) ==
    process_action(game, id, action, amount).game

\* the round-complete rule as it is stated: at most one player can act, or
\* every player who can act has matched the table's bet and has acted
CanonicalComplete(g) ==
    \/ Cardinality(ActiveInRound(g)) <= 1
    \/ \A i \in ActiveInRound(g) :
          /\ g.players[i].current_bet = g.current_bet
          /\ g.players[i].has_acted_this_round

\* C11: on every table of a betting street on which it is evaluated, the
\* table between two steps and the table an accepted action leaves,
\* is_betting_round_complete returns the stated rule: true when at most
\* one player can act, else true iff every player who can act has
\* current_bet = table.current_bet and has acted.
C11_RoundCompleteIsCanonical ==
    /\ [](game.game_state \in BettingStreets
            => is_betting_round_complete(game) = CanonicalComplete(game))
    /\ [][\A id \in SeatedIds, action \in ActionNames :
             \A amount \in StackAmounts(action) :
                (/\ game.game_state \in BettingStreets
                 /\ id = Actor(game)
                 /\ ClientAction(id, action, amount)
                 /\ last'.accepted)
                => is_betting_round_complete(Decided(id, action, amount))
                      = CanonicalComplete(Decided(id, action, amount))]_vars

\* a player who can act has less in than the table's bet
Unanswered(g) ==
    \E i \in ActiveInRound(g) : g.players[i].current_bet < g.current_bet

\* at least two players have not folded
Contested(g) == Cardinality(potential_winners(g)) >= 2

\* C12: the street is never advanced, by the handler after an accepted
\* action or by a loop iteration, while at least two players are in the
\* hand and one who can act has a current_bet below table.current_bet.
C12_NoAdvanceWhileBetUnanswered ==
    [][/\ \A id \in SeatedIds, action \in ActionNames :
             \A amount \in Amounts(action) :
                (/\ game.game_state \in BettingStreets
                 /\ id = Actor(game)
                 /\ ClientAction(id, action, amount)
                 /\ last'.advanced)
                => ~(/\ Contested(Decided(id, action, amount))
                     /\ Unanswered(Decided(id, action, amount)))
       /\ (last'.op = "tick" /\ last'.advanced)
             => ~(Contested(game) /\ Unanswered(game))]_vars

\* the seats of table g, other than player id's, that can act and have
\* less in than the table's bet
Behind(g, id) ==
    {i \in ActiveInRound(g) :
        g.players[i].id # id /\ g.players[i].current_bet < g.current_bet}

\* C13: on the table an accepted raise leaves, every other player who can
\* act and is below the new table.current_bet has acted_this_round = false,
\* and with such a player left the round is not complete.
C13_RaiseReopensAction ==
    [][\A id \in SeatedIds, amount \in StackTargets :
          (/\ game.game_state \in BettingStreets
           /\ id = Actor(game)
           /\ ClientAction(id, "raise", amount)
           /\ last'.accepted)
          => \A i \in Behind(Decided(id, "raise", amount), id) :
                /\ ~Decided(id, "raise", amount).players[i].has_acted_this_round
                /\ ~is_betting_round_complete(Decided(id, "raise", amount))]_vars

\* the highest current_bet among the players who have not folded
HighestBet(g) ==
    MaxOf({g.players[i].current_bet : i \in potential_winners(g)})

\* C14: in a betting street table.current_bet is the maximum current_bet
\* among the players who have not folded.
C14_TableBetIsHighestBet ==
    (game.game_state \in BettingStreets /\ potential_winners(game) # {})
        => game.current_bet = HighestBet(game)

\* C15: no accepted action leaves table.current_bet lower than it was
\* before the action, a raise clamped to the raiser's chips included.
C15_TableBetNeverDecreases ==
    [][\A id \in SeatedIds, action \in ActionNames :
          \A amount \in StackAmounts(action) :
             (/\ game.game_state \in BettingStreets
              /\ id = Actor(game)
              /\ ClientAction(id, action, amount)
              /\ last'.accepted)
             => Decided(id, action, amount).current_bet >= game.current_bet]_vars

SeatBefore(g, d) ==
    At(g.players,
       (g.current_player_index + Len(g.players) - d) % Len(g.players))

C17_StacksAndBetsInRange ==
    \A i \in Seats(game) :
        /\ game.players[i].chips >= 0
        /\ 0 <= game.players[i].current_bet
        /\ game.players[i].current_bet <= game.players[i].total_bet

\* a player has called for less than the bet, with the last chips
C17_Witness ==
    \E i \in Seats(game) :
        /\ game.game_state \in BettingStreets
        /\ last.op = "action" /\ last.accepted
        /\ game.players[i].chips = 0
        /\ game.players[i].is_all_in
        /\ 0 < game.players[i].current_bet
        /\ game.players[i].current_bet < game.current_bet

\* C18: a raise of the current actor to a target above table.current_bet
\* but below table.current_bet + big_blind is refused and leaves the table
\* unchanged.
C18_UnderMinimumRaiseRejected ==
    [][\A id \in SeatedIds, amount \in StackTargets :
          (/\ game.game_state \in BettingStreets
           /\ id = Actor(game)
           /\ game.current_bet < amount
           /\ amount < game.current_bet + BigBlind
           /\ ClientAction(id, "raise", amount))
          => /\ ~last'.accepted
             /\ game' = game]_vars

\* the hand has to be run out: at least two players have not folded and
\* at most one of them can act
RunOut(g) ==
    /\ g.game_state \in BettingStreets
    /\ Contested(g)
    /\ Cardinality(ActiveInRound(g)) <= 1

\* the order of the streets
StreetAfter(street) ==
    CASE street = "pre_flop" -> "flop"
      [] street = "flop" -> "turn"
      [] street = "turn" -> "river"
      [] OTHER -> "showdown"

\* C19: a loop iteration on a hand that has to be run out moves it one
\* street on, and distributes the pot only at showdown, over 5 community
\* cards and by comparing the hands.
C19_RunOutToShowdown ==
    [][(last'.op = "tick" /\ last'.advanced /\ RunOut(game))
       => /\ game'.game_state = StreetAfter(game.game_state)
          /\ \A k \in 1..Len(last'.awards) :
                /\ last'.awards[k].kind = "side_pots"
                /\ game'.game_state = "showdown"
                /\ Len(game'.community_cards) = 5]_vars

\* at least two seated players hold chips
TwoWithChips(g) ==
    Cardinality({i \in Seats(g) : g.players[i].chips > 0}) >= 2

\* C20: a start_game message starts a hand when the street is waiting or
\* game_over and two seated players hold chips; in every other street it is
\* answered with an error and changes nothing.
C20_StartGameWhenWaitingOrOver ==
    [][\A shuffled \in Shuffles :
          StartGame(shuffled)
          => IF /\ game.game_state \in {"waiting", "game_over"}
                /\ TwoWithChips(game)
             THEN game'.game_state = "pre_flop" /\ last'.reply = None
             ELSE game' = game /\ last'.reply = "error"]_vars

\* C21: the table never seats more than 6 players, and a join that arrives
\* while 6 are seated leaves the table unchanged and is answered with
\* join_failed.
C21_JoinRejectedWhenFull ==
    /\ [](Len(game.players) <= MaxSeats)
    /\ [][\A id \in SeatIds \ SeatedIds :
             (Len(game.players) = MaxSeats /\ Join(id))
             => (game' = game /\ last'.reply = "join_failed")]_vars

HiddenFrom(g, player_id, shuffled) ==
    [g EXCEPT
        !.deck = shuffled,
        !.players =
           [i \in 1..Len(g.players) |->
               IF g.players[i].id = player_id THEN g.players[i]
               ELSE [g.players[i] EXCEPT
                       !.cards = [j \in 1..Len(g.players[i].cards) |->
                                     shuffled[2 * i + j]] \o <<>>]] \o <<>>]

\* C23: outside showdown the snapshot made for a recipient shows the
\* recipient's own hole cards and, for every other player, as many
\* placeholders as that player holds cards, and it is the same snapshot
\* whatever the other players' hole cards and the deck are; in showdown it
\* shows every player's hole cards.
C23_SnapshotHidesOtherHands ==
    \A r \in SeatedIds :
        IF game.game_state # "showdown"
        THEN /\ \A i \in Seats(game) :
                   get_game_state(game, r).players[i].cards =
                      IF game.players[i].id = r THEN game.players[i].cards
                      ELSE [j \in 1..Len(game.players[i].cards) |-> card_back]
             /\ \A shuffled \in Shuffles \cup {CanonicalDeck} :
                   get_game_state(HiddenFrom(game, r, shuffled), r)
                      = get_game_state(game, r)
        ELSE \A i \in Seats(game) :
                get_game_state(game, r).players[i].cards
                   = game.players[i].cards

\* a hand is under way: every player holds two cards and another deal would
\* have given the second seat other cards
C23_Witness ==
    /\ game.game_state \in BettingStreets
    /\ Len(game.players) >= 2
    /\ \A i \in Seats(game) : Len(game.players[i].cards) = 2
    /\ HiddenFrom(game, game.players[1].id, CanonicalDeck).players[2].cards
          # game.players[2].cards

\* the blind a player has in front of them is blind, or their whole stack
\* when that is less
Posted(p, blind) ==
    /\ p.current_bet = Min(blind, p.chips + p.current_bet)
    /\ p.total_bet = p.current_bet

\* C24: when a hand has just started with exactly two seated players, the
\* dealer has posted the small blind and the other player the big blind.
C24_HeadsUpDealerPostsSmallBlind ==
    (/\ game.game_state = "pre_flop"
     /\ game.action_history = 0
     /\ Len(game.players) = 2)
    => /\ Posted(At(game.players, game.dealer_position), SmallBlind)
       /\ Posted(At(game.players, (game.dealer_position + 1) % 2), BigBlind)
       /\ game.pot = game.players[1].current_bet + game.players[2].current_bet

\* the second hand of a heads-up table: the button is on the second seat
C24_Witness ==
    /\ game.game_state = "pre_flop"
    /\ game.action_history = 0
    /\ Len(game.players) = 2
    /\ game.dealer_position = 1
    /\ game.players[2].current_bet = SmallBlind
    /\ game.players[1].current_bet = BigBlind

\* start_new_hand has dealt a hand in this step
NewHandDealt ==
    /\ game'.game_state = "pre_flop"
    /\ game'.action_history = 0
    /\ \/ game.game_state # "pre_flop"
       \/ game.action_history # 0
       \/ game'.dealer_position # game.dealer_position

\* the chips player p had when the button was assigned: the reset of lines
\* 160-162 and the blinds leave chips + total_bet as it was
ChipsAtDeal(p) == p.chips + p.total_bet

\* the number of seats passed going from the seat after seat prev to seat j
SeatsPassed(n, prev, j) == (j - prev - 1 + n) % n

\* C25: every start_new_hand puts the button on the first seat after the
\* previous dealer, in cyclic order, whose player has chips: the new dealer
\* has chips and every seat passed over has none.
C25_ButtonMovesToNextWithChips ==
    [][NewHandDealt =>
         /\ game'.dealer_position \in 0..(Len(game'.players) - 1)
         /\ ChipsAtDeal(At(game'.players, game'.dealer_position)) > 0
         /\ \A j \in 0..(Len(game'.players) - 1) :
               SeatsPassed(Len(game'.players), game.dealer_position, j)
                  < SeatsPassed(Len(game'.players), game.dealer_position,
                                game'.dealer_position)
               => ChipsAtDeal(At(game'.players, j)) = 0]_vars

\* the second hand of a three-player table whose second seat went broke in
\* the first: the button has gone from the first seat to the third
C25_Witness ==
    /\ game.game_state = "pre_flop"
    /\ game.action_history = 0
    /\ Len(game.players) = 3
    /\ game.dealer_position = 2
    /\ ChipsAtDeal(game.players[2]) = 0

\* the cards the evaluator was given, and what it returned
Evaluated == last.op = "evaluate_hand"

Hand == Range(game.players[1].cards) \cup Range(game.community_cards)

Category == last.reply[1]

Tiebreak == last.reply[2]

\* C26 as stated: the hand 2c 7d 9h Ks Kd 3c 3d evaluates to category 6.
C26_PairedHandIsFullHouse ==
    (Evaluated /\ Hand = PairedHand) => Category = 6

\* C26 amended: the hand 2c 7d 9h Ks Kd 3c 3d evaluates to category 2, two
\* pair, kings and threes with the nine as kicker.
C26_PairedHandIsTwoPair ==
    (Evaluated /\ Hand = PairedHand)
    => (Category = 2 /\ Tiebreak = <<13, 3, 9>>)

C26_Witness == Evaluated /\ Hand = PairedHand /\ Category = 2

\* the sets of five cards of hand H
Fives(H) == {F \in SUBSET H : Cardinality(F) = 5}

RanksOf(F) == {get_value(c) : c \in F}

\* five cards of consecutive ranks, the ace high or low
IsStraightSet(F) ==
    /\ Cardinality(RanksOf(F)) = 5
    /\ \/ MaxOf(RanksOf(F)) - MinOf(RanksOf(F)) = 4
       \/ RanksOf(F) = {14, 2, 3, 4, 5}

\* five cards of one suit
IsFlushSet(F) == Cardinality({suit_of(c) : c \in F}) = 1

HasStraight(H) == \E F \in Fives(H) : IsStraightSet(F)

HasFlush(H) == \E F \in Fives(H) : IsFlushSet(F)

HasStraightFlush(H) == \E F \in Fives(H) : IsStraightSet(F) /\ IsFlushSet(F)

\* ten to ace of one suit
HasRoyal(H) == \E s \in 0..3 : {Card(s, v) : v \in 10..14} \subseteq H

\* the number of cards of rank r in H
Held(H, r) == Cardinality({c \in H : get_value(c) = r})

HasQuads(H) == \E r \in RanksOf(H) : Held(H, r) = 4

HasFullHouse(H) ==
    \E r \in RanksOf(H), q \in RanksOf(H) :
        r # q /\ Held(H, r) >= 3 /\ Held(H, q) >= 2

\* C27: the evaluator returns category 9 with tiebreak [14] exactly when
\* the hand contains ten, jack, queen, king and ace of one suit.
C27_RoyalFlushExactly ==
    Evaluated => ((Category = 9 /\ Tiebreak = <<14>>) <=> HasRoyal(Hand))

\* the five highest ranks of the suit that H holds five times or more
TopFlushRanks(H) ==
    LET s == CHOOSE t \in 0..3 : Cardinality({c \in H : suit_of(c) = t}) >= 5
    IN  Take(SortDesc({get_value(c) : c \in {d \in H : suit_of(d) = s}}), 5)

\* C28: a hand with a flush and a straight, but no straight flush, no four
\* of a kind and no full house, evaluates to category 5 with the five
\* highest ranks of the flush suit as tiebreak.
C28_FlushBesideStraight ==
    (/\ Evaluated
     /\ HasFlush(Hand) /\ HasStraight(Hand)
     /\ ~HasStraightFlush(Hand) /\ ~HasQuads(Hand) /\ ~HasFullHouse(Hand))
    => (Category = 5 /\ Tiebreak = TopFlushRanks(Hand))

\* seven cards with ace to five, no two of one rank and no five of one suit
WheelPlusTwo(H) ==
    /\ Cardinality(H) = 7
    /\ {14, 2, 3, 4, 5} \subseteq RanksOf(H)
    /\ Cardinality(RanksOf(H)) = 7
    /\ ~HasFlush(H)

\* C29 as stated: seven cards with ace to five in mixed suits and two more
\* cards that make no flush and no pair evaluate to category 4 with
\* tiebreak [5].
C29_WheelWhateverTheRest ==
    (Evaluated /\ WheelPlusTwo(Hand))
    => (Category = 4 /\ Tiebreak = <<5>>)

\* C29 amended: seven cards with ace to five in mixed suits and two more
\* cards that make no flush and no pair, neither of them a six, evaluate to
\* category 4 with tiebreak [5].
C29_WheelWithoutSix ==
    (Evaluated /\ WheelPlusTwo(Hand) /\ 6 \notin RanksOf(Hand))
    => (Category = 4 /\ Tiebreak = <<5>>)

C29_Witness ==
    /\ Evaluated
    /\ WheelPlusTwo(Hand)
    /\ 6 \notin RanksOf(Hand)
    /\ Category = 4

\* C30: a hand with four of a kind and no straight flush evaluates to
\* category 7 with tiebreak [quad rank, highest rank among the other cards].
C30_QuadsKickerIsHighestOther ==
    (Evaluated /\ HasQuads(Hand) /\ ~HasStraightFlush(Hand))
    => \E r \in RanksOf(Hand) :
          /\ Held(Hand, r) = 4
          /\ Category = 7
          /\ Tiebreak = <<r, MaxOf(RanksOf(Hand) \ {r})>>

\* the ranks H holds exactly twice
PairedRanks(H) == {r \in RanksOf(H) : Held(H, r) = 2}

\* nothing better than two pair is in H, and two pair is
BestIsTwoPair(H) ==
    /\ ~HasStraight(H) /\ ~HasFlush(H)
    /\ \A r \in RanksOf(H) : Held(H, r) <= 2
    /\ Cardinality(PairedRanks(H)) >= 2

\* the two highest paired ranks of H, higher first
TopPairs(H) == Take(SortDesc(PairedRanks(H)), 2)

\* C31: a hand whose best is two pair evaluates to category 2 with tiebreak
\* [higher pair, lower pair, k], the pairs being the two highest paired
\* ranks and k the highest rank among all the other cards, a third pair's
\* rank included.
C31_TwoPairKickerIsHighestOther ==
    (Evaluated /\ BestIsTwoPair(Hand))
    => /\ Category = 2
       /\ Tiebreak = TopPairs(Hand)
                        \o <<MaxOf(RanksOf(Hand) \ Range(TopPairs(Hand)))>>

\* the table d that process_action leaves of table g after the all-in of
\* the player at seat k (1-based): the whole stack is in
StackCommitted(g, d, k) ==
    /\ d.players[k].chips = 0
    /\ d.players[k].is_all_in
    /\ d.players[k].current_bet = g.players[k].current_bet + g.players[k].chips
    /\ d.players[k].total_bet = g.players[k].total_bet + g.players[k].chips
    /\ d.pot = g.pot + g.players[k].chips

\* the all-in of seat k has set the bet to match on d and re-opened the
\* action of the other players who can act and are below it
ActsAsRaise(g, d, k) ==
    /\ d.current_bet = d.players[k].current_bet
    /\ d.last_raiser = d.players[k].id
    /\ \A i \in Seats(g) \ {k} :
          d.players[i] =
             IF can_act(g.players[i])
                /\ g.players[i].current_bet < d.players[k].current_bet
             THEN [g.players[i] EXCEPT !.has_acted_this_round = FALSE]
             ELSE g.players[i]

\* the all-in of seat k has left the bet to match, the last raiser and the
\* other players as they were
ActsAsCall(g, d, k) ==
    /\ d.current_bet = g.current_bet
    /\ d.last_raiser = g.last_raiser
    /\ \A i \in Seats(g) \ {k} : d.players[i] = g.players[i]

\* C32: on the table an accepted all_in leaves, the player's whole stack is
\* committed; when the resulting current_bet exceeds table.current_bet the
\* table bet and last_raiser are updated and every other player who can act
\* below the new bet has to act again, otherwise the table bet, last_raiser
\* and the other players are unchanged.
C32_AllInCommitsStack ==
    [][\A id \in SeatedIds :
          (/\ game.game_state \in BettingStreets
           /\ id = Actor(game)
           /\ ClientAction(id, "all_in", 0)
           /\ last'.accepted)
          => LET k == IndexOf(game.players, id) + 1
                 d == Decided(id, "all_in", 0)
             IN  /\ StackCommitted(game, d, k)
                 /\ IF d.players[k].current_bet > game.current_bet
                    THEN ActsAsRaise(game, d, k)
                    ELSE ActsAsCall(game, d, k)]_vars

\* the largest stack has gone in over the bet and the others have to answer:
\* no raise target reaches that bet
C32_Witness ==
    \E i \in Seats(game) :
        /\ game.game_state \in BettingStreets
        /\ last.op = "action" /\ last.accepted
        /\ game.players[i].is_all_in
        /\ game.players[i].chips = 0
        /\ game.players[i].current_bet = MaxOf(StackSizes)
        /\ game.current_bet = MaxOf(StackSizes)
        /\ game.last_raiser = game.players[i].id

\* player p of table g can act and either has less in than the table's bet
\* or has not acted this round
MustAct(g, p) ==
    /\ ~p.is_folded /\ ~p.is_all_in /\ p.chips > 0
    /\ (p.current_bet < g.current_bet \/ ~p.has_acted_this_round)

\* the number of seats from seat a (0-based) to seat c going round the ring
\* of n seats, n when c is a itself
SeatsOn(n, a, c) == ((c - a - 1 + n) % n) + 1

\* C33: after an accepted action that does not complete the round, the
\* current actor is the first seat after the acting seat, in cyclic order,
\* whose player can act and has less in than table.current_bet or has not
\* acted this round: such a seat exists and none is skipped.
C33_TurnGoesToNextWhoMustAct ==
    [][\A id \in SeatedIds, action \in ActionNames :
          \A amount \in StackAmounts(action) :
             (/\ game.game_state \in BettingStreets
              /\ id = Actor(game)
              /\ ClientAction(id, action, amount)
              /\ last'.accepted /\ ~last'.advanced)
             => LET d == Decided(id, action, amount)
                    n == Len(game.players)
                    a == game.current_player_index
                    c == game'.current_player_index
                IN  /\ c \in 0..(n - 1)
                    /\ game' = [d EXCEPT !.current_player_index = c]
                    /\ MustAct(d, At(d.players, c))
                    /\ \A e \in 1..(SeatsOn(n, a, c) - 1) :
                          ~MustAct(d, At(d.players, (a + e) % n))]_vars

\* the first to act has folded without a chip in, the big blind has raised
\* and the turn has passed over the folded seat to the small blind
C33_Witness ==
    \E r \in {i - 1 : i \in Seats(game)} :
        /\ Len(game.players) = 3
        /\ game.game_state = "pre_flop"
        /\ last.op = "action" /\ last.accepted /\ ~last.advanced
        /\ At(game.players, r).current_bet = game.current_bet
        /\ game.current_bet > BigBlind
        /\ At(game.players, (r + 1) % 3).is_folded
        /\ At(game.players, (r + 1) % 3).total_bet = 0
        /\ game.current_player_index = (r + 2) % 3
        /\ MustAct(game, At(game.players, (r + 2) % 3))
        /\ At(game.players, (r + 2) % 3).current_bet < game.current_bet

\* the number of community cards a betting street is played on
BoardSize(street) ==
    CASE street = "pre_flop" -> 0
      [] street = "flop" -> 3
      [] street = "turn" -> 4
      [] OTHER -> 5

\* what advance_to_next_street makes of table g: bets and flags cleared,
\* the street one step on, the board of the new street dealt, and nothing
\* dealt on the way to showdown
AdvancedOneStreet(g) ==
    LET a == advance_to_next_street(g)
    IN  /\ a.game_state = StreetAfter(g.game_state)
        /\ \A i \in Seats(a) :
              /\ a.players[i].current_bet = 0
              /\ ~a.players[i].has_acted_this_round
        /\ a.current_bet = 0
        /\ a.last_raiser = None
        /\ IF a.game_state = "showdown"
           THEN a.community_cards = g.community_cards /\ a.deck = g.deck
           ELSE Len(a.community_cards) = BoardSize(a.game_state)

\* C34: every street advance, by the handler after an accepted action or
\* by a loop iteration, zeroes every current_bet and the table bet, clears
\* every acted flag and last_raiser and moves the street one step in the
\* order pre_flop, flop, turn, river, showdown, dealing nothing on the last
\* step; in every state the board holds 0 cards in pre_flop, 3 in flop, 4
\* in turn and 5 in river.
C34_StreetAdvance ==
    /\ [](game.game_state \in BettingStreets
            => Len(game.community_cards) = BoardSize(game.game_state))
    /\ [][/\ \A id \in SeatedIds, action \in ActionNames :
                \A amount \in Amounts(action) :
                   (/\ game.game_state \in BettingStreets
                    /\ id = Actor(game)
                    /\ ClientAction(id, action, amount)
                    /\ last'.advanced)
                   => /\ AdvancedOneStreet(Decided(id, action, amount))
                      /\ game'.game_state = StreetAfter(game.game_state)
                      /\ game'.game_state # "showdown"
                            => game' = advance_to_next_street(
                                          Decided(id, action, amount))
          /\ (last'.op = "tick" /\ last'.advanced)
                => AdvancedOneStreet(game)]_vars

\* a loop iteration has taken the hand from the turn to the river
C34_Witness ==
    /\ game.game_state = "river"
    /\ last.op = "tick" /\ last.advanced
    /\ Len(game.community_cards) = 5
    /\ game.current_bet = 0

\* index idx is the 0-based index of a seat of table g
InSeats(g, idx) == idx \in 0..(Len(g.players) - 1)

\* C35: a removal in the middle of a hand that goes on leaves
\* dealer_position and current_player_index within the seating list and
\* on the players they designated, or on a player who can act when the
\* actor was the one removed, and leaves last_raiser on a seated player.
C35_RemovalKeepsDesignations ==
    [][\A id \in SeatedIds :
          (/\ game.game_state \in BettingStreets
           /\ InSeats(game, game.dealer_position)
           /\ InSeats(game, game.current_player_index)
           /\ Disconnect(id)
           /\ game'.game_state \in BettingStreets)
          => /\ InSeats(game', game'.dealer_position)
             /\ InSeats(game', game'.current_player_index)
             /\ At(game.players, game.dealer_position).id # id
                   => At(game'.players, game'.dealer_position).id
                         = At(game.players, game.dealer_position).id
             /\ IF Actor(game) # id
                THEN Actor(game') = Actor(game)
                ELSE can_act(At(game'.players, game'.current_player_index))
             /\ game'.last_raiser \in {None} \cup (SeatedIds \ {id})]_vars

\* the chips the players hold and have put into the hand
ChipsAndBets(g) ==
    SumSeq([i \in Seats(g) |-> g.players[i].chips + g.players[i].total_bet])

\* C36: with the seating unchanged, from start_new_hand until the pot is
\* distributed the sum over the players of chips + total_bet is the sum of
\* the chips they held when start_new_hand began.
C36_ChipsPlusTotalBetConstant ==
    game.game_state \in BettingStreets
    => ChipsAndBets(game) = handStartChips

\* two streets on, after a bet above the blinds has gone in
C36_Witness ==
    /\ game.game_state \in {"turn", "river"}
    /\ \E i \in Seats(game) : game.players[i].total_bet > BigBlind
    /\ \E i \in Seats(game) : game.players[i].chips > 0
    /\ ChipsAndBets(game) = handStartChips

\* C37: every accepted call, raise or all_in takes a strictly positive
\* number of chips from the actor's stack and adds them to the actor's
\* current_bet and total_bet and to the pot.
C37_AcceptedBetMovesChipsIn ==
    [][\A id \in SeatedIds, action \in {"call", "raise", "all_in"} :
          \A amount \in ShortAmounts(action) :
             (/\ game.game_state \in BettingStreets
              /\ id = Actor(game)
              /\ ClientAction(id, action, amount)
              /\ last'.accepted)
             => LET k == IndexOf(game.players, id) + 1
                    d == Decided(id, action, amount)
                    moved == game.players[k].chips - d.players[k].chips
                IN  /\ moved > 0
                    /\ d.players[k].current_bet
                          = game.players[k].current_bet + moved
                    /\ d.players[k].total_bet
                          = game.players[k].total_bet + moved
                    /\ d.pot = game.pot + moved]_vars

\* the seats of table g whose player joined after the hand was dealt: they
\* hold no cards
LateSeats(g) == {i \in Seats(g) : g.players[i].cards = <<>>}

\* table g without the players of LateSeats(g)
DealtIn(g) ==
    [g EXCEPT !.players = SelectSeq(g.players, LAMBDA p : p.cards # <<>>)]

\* C38: a player who joined while the hand was in progress is never the
\* current actor of that hand, is not counted by the round-complete
\* predicate, and is credited nothing from that hand's pot.
C38_LateJoinerTakesNoPart ==
    /\ game.game_state \in BettingStreets
          => /\ \A i \in LateSeats(game) : Actor(game) # game.players[i].id
             /\ is_betting_round_complete(game)
                   = is_betting_round_complete(DealtIn(game))
    /\ \A a \in Awards :
          \A i \in LateSeats(game) \cap DOMAIN a.paid : a.paid[i] = 0

\* a hand is being played or shown down
InHand(g) == g.game_state \in BettingStreets \cup {"showdown"}

\* the cards of table g that are in the deck, in a hand or on the board
CardsOut(g) ==
    Range(g.deck) \cup Range(g.community_cards)
       \cup UNION {Range(g.players[i].cards) : i \in Seats(g)}

\* the number of cards of table g counted place by place
CardCount(g) ==
    Len(g.deck) + Len(g.community_cards)
       + SumSeq([i \in Seats(g) |-> Len(g.players[i].cards)])

\* the cards burned up to a street: one before the flop, the turn and the
\* river
Burns(street) ==
    CASE street = "pre_flop" -> 0
      [] street = "flop" -> 1
      [] street = "turn" -> 2
      [] OTHER -> 3

\* deck, hole cards and board of table g are pairwise disjoint sets of
\* distinct cards of the 52, the cards in none of them are as many as were
\* burned, every player holds two cards and the deck is not empty
CardsAccounted(g) ==
    /\ CardsOut(g) \subseteq 0..(DeckSize - 1)
    /\ Cardinality(CardsOut(g)) = CardCount(g)
    /\ DeckSize - CardCount(g) = Burns(g.game_state)
    /\ \A i \in Seats(g) : Len(g.players[i].cards) = 2
    /\ Len(g.deck) > 0

\* C39 as stated: in every state of a hand the deck, the hole cards, the
\* community cards and the burned cards are pairwise disjoint and together
\* the 52 cards, every player holds 2 hole cards and the deck is not empty.
C39_CardsAccountedAlways == InHand(game) => CardsAccounted(game)

\* C39 amended: the same in every state of a hand from which no player has
\* been removed since it was dealt.
C39_CardsAccountedWhileSeated ==
    (InHand(game) /\ FullTable) => CardsAccounted(game)

\* the river of a hand that was run out with every player seated
C39_Witness ==
    /\ game.game_state = "river"
    /\ FullTable
    /\ Len(game.community_cards) = 5
    /\ DeckSize - CardCount(game) = 3

\* the current actor of table g can act
ActorCanAct(g) ==
    /\ InSeats(g, g.current_player_index)
    /\ can_act(At(g.players, g.current_player_index))

\* C40: with the loop running and the current actor submitting legal
\* actions, nobody joining or leaving: whenever the round is not complete
\* there is a current actor who can act, and the hand reaches the
\* distribution of a pot.  Every accepted action adds to action_history
\* and nothing happens to the hand after the distribution, so no street
\* lasts for ever and none sees infinitely many accepted actions.
C40_HandReachesDistribution ==
    /\ []((game.game_state \in BettingStreets /\ ~HandDone
             /\ ~is_betting_round_complete(game)) => ActorCanAct(game))
    /\ <>HandDone

\* the hand has gone through every street and the pot has been shared out
\* at showdown
C40_Witness ==
    /\ HandDone
    /\ game.game_state = "showdown"
    /\ Len(game.community_cards) = 5
    /\ last.op = "action"

====
